---- MODULE Spec2Model ----
(***************************************************************************)
(* A model of rewrk-core: the benchmark orchestrator (runtime/mod.rs), the *)
(* worker runtime (runtime/worker.rs), the producer actor (producer.rs),   *)
(* the collector actor (recording/collector.rs) and the sample container   *)
(* (recording/sample.rs).                                                  *)
(*                                                                         *)
(* Time is kept per slot: `elapsed` is last_sent_sample.elapsed(), the     *)
(* monotonic time since the slot's window start.  It grows while the slot  *)
(* awaits (a batch, a response) and is zeroed where the code stores        *)
(* Instant::now() into last_sent_sample.  One time unit is one second.     *)
(***************************************************************************)
EXTENDS Integers, Sequences, FiniteSets, TLC

\* ---------------------------------------------------------------- bounds
MaxWorkers == 2        \* worker threads of the concurrent runs
MaxConcurrency == 2    \* total concurrency of the concurrent runs
RunBatches == 1        \* batches a producer may emit in the concurrent runs
SlotBatches == 2       \* batches the producer may emit in the single-slot runs
MaxBatchLen == 1       \* requests per batch of the single-slot runs
MaxTag == 1            \* batch tags are 0..MaxTag
MaxLatency == 2        \* a request takes 1..MaxLatency seconds
MaxWait == 1           \* a slot waits 0..MaxWait seconds for a batch
Window == 3            \* the configured sample window, in seconds
RespBytes == 3         \* bytes received per response
ReqBytes == 1          \* bytes written per request
PartWorkers == 4       \* worker counts of the partitioning runs
PartConcurrency == 9   \* total concurrency of the partitioning runs
MaxRuns == 2           \* calls of run() on one benchmark in the repeated runs
OrderBatches == 3      \* batches the producer may emit in the batch-order runs
OrderBatchLen == 2     \* requests per batch of the batch-order runs
FillBatches == 6       \* batches the producer may emit in the back-pressure runs
MaxRetry == 3          \* retry maxima of the connect runs are 0..MaxRetry
MaxDeadline == 4       \* deadlines of the connect runs, in sleeps of 500 ms
MaxAttemptTime == 2    \* a connect attempt takes 0..MaxAttemptTime
MaxRequests == 2       \* calls of execute_req in the request runs
MaxBase == 1           \* first request ids of the keyed runs are 0..MaxBase
MaxBytes == 6          \* bytes counted in the usage runs
MaxChunk == 2          \* bytes read or offered for writing in one poll
MaxFilled == 2         \* bytes a ReadBuf may hold before a poll
MaxCount == 2          \* byte counts of the rate runs are 0..MaxCount
MaxDur == 2            \* durations of the rate runs are 0..MaxDur
MaxRates == 2          \* transfers recorded per series in the rate runs

\* ------------------------------------------------------------- constants
\* The value `as u32` saturates to.  u32::MAX = 4294967295 is beyond the
\* integers of TLC; the largest one stands for it: like u32::MAX, it is above
\* every rate the byte counts and durations of the model can give.
RateMax == 2147483647
BufferFactor == 4      \* ProducerActor::spawn(concurrency * 4, ..)
DefaultWindow == 10    \* DEFAULT_WINDOW_DURATION, in seconds
ScenarioLen == 5        \* requests per batch of the tag-switch scenario
BACKOFF_RETRIES == 12   \* Backoff::new(12, BACKOFF_MIN, BACKOFF_MAX)
RETRY_MAX_DEFAULT == 3  \* the connector's retry maximum after create
DEFAULT_WAIT_WARNING_THRESHOLD == 5   \* in percent

VARIABLES
    cfg,          \* the benchmark's configuration (num_workers, concurrency,
                  \* sample_window, validator, retry_max,
                  \* producer_wait_warning_threshold: what create and the set_*
                  \* methods store) and the environment's limits
    should_stop,  \* ShutdownHandle.should_stop
    orch,         \* where the caller of ReWrkBenchmark is
    runs,         \* how many times run() has been called
    waiter,       \* per call of run(): the future it returned, "none" (not
                  \* called yet), "pending" or "done"
    cfg_sender,   \* worker_config.collector is still held by the orchestrator
    wk,           \* per worker thread: its position in spawn_worker/run_worker
    slot,         \* per thread and slot: the slot task and its WorkerConnection
    prod,         \* per thread: the producer actor and the user producer
    queue,        \* per thread: the bounded producer -> slots channel
    mailbox,      \* the unbounded sample channel of the collector
    coll,         \* the collector actor: "running" or "exited"
    processed,    \* the samples the user collector was handed, in order
    sw,           \* the loop of spawn_workers, for the partitioning runs
    conn          \* a connector or connection at work, for the connection runs

vars == <<cfg, should_stop, orch, runs, waiter, cfg_sender, wk, slot, prod, queue,
          mailbox, coll, processed, sw, conn>>

\* The worker threads: every call of run() spawns threads of its own, which
\* may outlive it.  Thread (r - 1) * MaxWorkers + i is worker i of the r-th
\* call; in the first run a thread's index is its worker id.
WorkerIds == 0..(MaxRuns * MaxWorkers - 1)
RunIds == 1..MaxRuns
RunOf(w) == (w \div MaxWorkers) + 1
WorkerIdOf(w) == w % MaxWorkers
ThreadsOf(r) == {w \in WorkerIds : RunOf(w) = r}
SlotIds == 0..(MaxConcurrency - 1)
Tags == 0..cfg.max_tag
Lens == cfg.min_len..cfg.max_len
Latencies == 1..cfg.max_latency
Waits == 0..cfg.max_wait

\* ---------------------------------------------------------------- helpers
RECURSIVE SumSeq(_)
SumSeq(s) == IF s = <<>> THEN 0 ELSE Head(s) + SumSeq(Tail(s))

IsSorted(s) == \A i \in 1..(Len(s) - 1) : s[i] <= s[i + 1]

RECURSIVE Insert(_, _)
Insert(x, s) == IF s = <<>> THEN <<x>>
                ELSE IF x <= Head(s) THEN <<x>> \o s
                ELSE <<Head(s)>> \o Insert(x, Tail(s))

\* slice::sort: the elements of s in non-decreasing order
RECURSIVE Sort(_)
Sort(s) == IF s = <<>> THEN <<>> ELSE Insert(Head(s), Sort(Tail(s)))

\* The samples the collector actor was sent, oldest first.
Delivered == processed \o mailbox

\* ------------------------------------------------------------------ Sample
\* SampleFactory::new_sample.  sid is the identity of the moved value: it is
\* stamped <<worker, slot, n>> when the n-th sample of a slot is submitted,
\* and run is stamped with the number of the run() it was submitted in.
\* worker_id and concurrency_id are the sample's metadata: a copy of the
\* factory's, which run_worker makes once, before its loop over the slots,
\* naming the worker_id only; concurrency_id is what that one value holds.
\* of_tags is history: the tags of the batches whose requests the sample
\* counts (kept where the histories are kept).
new_sample(tag, worker_id) ==
    [tag |-> tag,
     total_duration |-> 0,
     total_latency_duration |-> 0,
     total_requests |-> 0,
     total_successful_requests |-> 0,
     latency |-> <<>>,
     write_transfer |-> <<>>,
     read_transfer |-> <<>>,
     errors |-> <<>>,
     worker_id |-> worker_id,
     concurrency_id |-> cfg.metadata_concurrency_id,
     of_tags |-> {},
     sid |-> <<>>,
     run |-> 0]

record_total_request(s) == [s EXCEPT !.total_requests = @ + 1]

record_successful_request(s) == [s EXCEPT !.total_successful_requests = @ + 1]

\* an error recorded in a sample and counted as a success as well
record_error_as_success(s, e) ==
    [s EXCEPT !.errors = Append(@, e), !.total_successful_requests = @ + 1]

record_error(s, e) == [s EXCEPT !.errors = Append(@, e)]

\* a latency pushed without being added to the total
record_latency_untotalled(s, dur) == [s EXCEPT !.latency = Append(@, dur)]

record_latency(s, dur) ==
    [s EXCEPT !.total_latency_duration = @ + dur, !.latency = Append(@, dur)]

set_total_duration(s, dur) == [s EXCEPT !.total_duration = dur]

\* ((stop - start) as f64 / dur.as_secs_f64()).round() as u32: a division by a
\* zero duration gives NaN (0 bytes) or +inf, which `as u32` turns into 0 and
\* u32::MAX; round() rounds half away from zero; `as u32` saturates.
calculate_rate(start, stop, dur) ==
    IF dur = 0
    THEN IF stop - start = 0 THEN 0 ELSE RateMax
    ELSE LET r == (2 * (stop - start) + dur) \div (2 * dur)
         IN IF r > RateMax THEN RateMax ELSE r

record_write_transfer(s, start, stop, dur) ==
    [s EXCEPT !.write_transfer = Append(@, calculate_rate(start, stop, dur))]

record_read_transfer(s, start, stop, dur) ==
    [s EXCEPT !.read_transfer = Append(@, calculate_rate(start, stop, dur))]

\* AddAssign leaving total_latency_duration as it is
add_assign_without_latency_total(a, b) ==
    [a EXCEPT !.total_duration = @ + b.total_duration,
              !.total_requests = @ + b.total_requests,
              !.total_successful_requests = @ + b.total_successful_requests,
              !.latency = @ \o b.latency,
              !.read_transfer = @ \o b.read_transfer,
              !.write_transfer = @ \o b.write_transfer,
              !.errors = @ \o b.errors]

\* AddAssign for Sample (and Add, which calls it): tag and metadata stay a's.
add_assign(a, b) ==
    [a EXCEPT !.total_duration = @ + b.total_duration,
              !.total_requests = @ + b.total_requests,
              !.total_successful_requests = @ + b.total_successful_requests,
              !.total_latency_duration = @ + b.total_latency_duration,
              !.latency = @ \o b.latency,
              !.read_transfer = @ \o b.read_transfer,
              !.write_transfer = @ \o b.write_transfer,
              !.errors = @ \o b.errors]

\* The key of SampleMerger::add_sample.
SampleKey(sample) == <<sample.tag, sample.worker_id, sample.concurrency_id>>

\* SampleMerger::add_sample on the map `entries`.  In the closure of
\* and_modify the parameter `sample` hides the sample being added: the entry
\* is added to a clone of itself, and the new sample is dropped.
add_sample(entries, sample) ==
    LET key == SampleKey(sample)
    IN IF key \in DOMAIN entries
       THEN [entries EXCEPT ![key] = add_assign(@, @)]
       ELSE entries @@ (key :> sample)

\* The entries of a SampleMerger to which the samples of a sequence were
\* added in order, as a collector does from process_sample.
RECURSIVE merge_samples(_)
merge_samples(samples) ==
    IF samples = <<>> THEN <<>>
    ELSE add_sample(merge_samples(SubSeq(samples, 1, Len(samples) - 1)),
                    samples[Len(samples)])

\* sort_values sorting the latencies only
sort_values_latency_only(s) == [s EXCEPT !.latency = Sort(@)]

sort_values(s) ==
    [s EXCEPT !.latency = Sort(@),
              !.write_transfer = Sort(@),
              !.read_transfer = Sort(@)]

\* SampleFactory::should_submit: window_timeout <= instant.elapsed()
should_submit(window_timeout, elapsed) == window_timeout <= elapsed

\* ----------------------------------------------------------- spawn_workers
\* The state of spawn_workers before its loop.
spawn_begin(num_workers, concurrency) ==
    LET per_worker_concurrency == concurrency \div num_workers
    IN [num_workers |-> num_workers,
        concurrency |-> concurrency,
        per_worker_concurrency |-> per_worker_concurrency,
        remaining_concurrency |-> concurrency - (per_worker_concurrency * num_workers),
        worker_id |-> 0,
        assigned |-> <<>>]

\* the loop body handing the remainder to every worker: it is never decremented
spawn_loop_body_keeping_remainder(st) ==
    LET concurrency_modifier == IF st.remaining_concurrency # 0 THEN 1 ELSE 0
    IN [st EXCEPT !.worker_id = @ + 1,
                  !.assigned = Append(@, st.per_worker_concurrency + concurrency_modifier)]

\* One iteration of `for worker_id in 0..num_workers`: the concurrency handed
\* to spawn_worker is appended to `assigned`.
spawn_loop_body(st) ==
    LET concurrency_modifier == IF st.remaining_concurrency # 0 THEN 1 ELSE 0
    IN [st EXCEPT !.remaining_concurrency = @ - concurrency_modifier,
                  !.worker_id = @ + 1,
                  !.assigned = Append(@, st.per_worker_concurrency + concurrency_modifier)]

RECURSIVE spawn_loop(_)
spawn_loop(st) ==
    IF st.worker_id >= st.num_workers THEN st ELSE spawn_loop(spawn_loop_body(st))

\* The concurrency of each worker, worker i at index i + 1.
spawn_workers(num_workers, concurrency) ==
    spawn_loop(spawn_begin(num_workers, concurrency)).assigned

\* ------------------------------------------------------------ state shapes
\* RequestKey::new
RequestKey(worker_id, request_id) ==
    [worker_id |-> worker_id, request_id |-> request_id]

\* no is the emission number of a batch: the n-th batch a producer actor was
\* handed by create_batch carries n (0 where the histories are not kept).
\* key is the request key the batch is received with.
NoBatch == [tag |-> 0, len |-> 0, no |-> 0, key |-> RequestKey(0, 0)]

\* config is the WorkerConfig the thread was given: a clone of worker_config
\* made when run() was called.
NoConfig == [sample_window |-> 0, validator |-> "none", retry_max |-> 0,
             producer_wait_warning_threshold |-> 0]

\* rerun is history: the thread was spawned by a call of run() made when the
\* future of every earlier call, of which there was one, had completed.
IdleWorker == [pc |-> "idle", concurrency |-> 0, connected |-> 0, config |-> NoConfig,
               rerun |-> FALSE]

\* WorkerConnection::new, in a task that has not been polled yet.  got is the
\* history of the batches the slot has received: for each its emission number,
\* its length, the requests of it the slot has sent, and how many of them were
\* sent when the shutdown flag was already set.  driver is the state of the
\* task handshake() has spawned to drive the connection's transport.
NewConnection(worker_id, sample_window) ==
    [pc |-> "top",
     driver |-> "running",
     window |-> sample_window,
     sample |-> new_sample(0, worker_id),
     elapsed |-> 0,
     is_first_batch |-> TRUE,
     left |-> 0,
     nsub |-> 0,
     nclose |-> 0,
     ntag |-> 0,
     got |-> <<>>]

NoSlot(worker_id) ==
    [NewConnection(worker_id, 0) EXCEPT !.pc = "none", !.driver = "none"]

NoProducer == [pc |-> "none", pending |-> NoBatch, script |-> <<>>, budget |-> 0,
               ready_calls |-> 0, emitted |-> 0]

\* the threads spawn_workers has started
Workers == {w \in WorkerIds : wk[w].pc # "idle"}
SlotsOf(w) == 0..(wk[w].concurrency - 1)

\* rt.block_on(run_worker(..)) is executing and run_worker is pending, at the
\* await of a create_worker_connection or of join_all: the tasks of worker w
\* are polled.  From the return of its last create_worker_connection to the
\* poll of join_all run_worker does not await, and no task is polled: the
\* task spawned last has not run when the go signal is sent.
Running(w) ==
    \/ wk[w].pc = "run" /\ wk[w].connected < wk[w].concurrency
    \/ wk[w].pc = "join"

\* the guard (a clone of the Sender<()> of spawn_workers) is not dropped yet
GuardHeld(w) == wk[w].pc \in {"run", "join", "finished"}

\* the waiter resolving as soon as one worker is through, as it would were a
\* message sent through the guard
run_future_ready_on_first(r) == \E w \in ThreadsOf(r) \cap Workers : ~GuardHeld(w)

\* waiter.recv_async() resolves: nothing is ever sent, so it resolves with
\* Disconnected once no clone of the guard is left
run_future_ready(r) == \A w \in ThreadsOf(r) : ~GuardHeld(w)

\* A slot task owns a clone of the SampleFactory, hence of the mailbox sender,
\* until its future is dropped: at completion, or, once aborted, with the runtime.
SlotHoldsMailbox(w, k) ==
    \/ slot[w][k].pc \in {"top", "recv", "req"}
    \/ slot[w][k].pc = "aborted" /\ wk[w].pc # "gone"

\* run_worker owns config.collector (inside sample_factory) until it returns
WorkerHoldsMailbox(w) == wk[w].pc \in {"run", "join"}

\* the collector's mailbox kept open by the orchestrator's sender alone
mailbox_senders_of_config == IF cfg_sender THEN {<<"config">>} ELSE {}

mailbox_senders ==
    (IF cfg_sender THEN {<<"config">>} ELSE {})
    \cup {<<"worker", w>> : w \in {x \in WorkerIds : WorkerHoldsMailbox(x)}}
    \cup {<<"slot", p[1], p[2]>> :
            p \in {q \in WorkerIds \X SlotIds : SlotHoldsMailbox(q[1], q[2])}}

\* try_send on the unbounded channel fails only when the receiver is dropped
mailbox_connected == coll = "running"

\* a channel with room for one batch more than concurrency * 4
buffer_size_plus_one(w) == wk[w].concurrency * BufferFactor + 1

\* flume::bounded(buffer_size) with buffer_size = concurrency * 4
buffer_size(w) == wk[w].concurrency * BufferFactor

\* -------------------------------------------------------- WorkerConnection
\* WorkerConnection::submit_sample: the current sample is replaced by a new
\* one with next_sample_tag; the old one gets its total_duration and is sent.
\* last_sent_sample is stored only when the send succeeded.  nsub counts the
\* samples this slot has put into the mailbox.
submit_sample(sl, next_sample_tag, id) ==
    LET fresh == new_sample(next_sample_tag, sl.sample.worker_id)
        old_sample == [set_total_duration(sl.sample, sl.elapsed)
                         EXCEPT !.sid = Append(id, sl.nsub + 1), !.run = RunOf(id[1])]
    IN IF mailbox_connected
       THEN [sl |-> [sl EXCEPT !.sample = fresh, !.elapsed = 0, !.nsub = @ + 1],
             out |-> <<old_sample>>,
             ok |-> TRUE]
       ELSE [sl |-> [sl EXCEPT !.sample = fresh], out |-> <<>>, ok |-> FALSE]

\* send() not counting the request
send_begin_uncounted(sl) == [sl EXCEPT !.pc = "req"]

\* The part of send() before the request is awaited.
send_begin(sl) == [sl EXCEPT !.sample = record_total_request(@), !.pc = "req"]

\* a validated response recorded without its write rate
record_success_without_write(s, dur) ==
    record_read_transfer(
        record_latency(record_successful_request(s), dur),
        0, RespBytes, dur)

\* The metrics of a validated response.
record_success(s, dur) ==
    record_write_transfer(
        record_read_transfer(
            record_latency(record_successful_request(s), dur),
            0, RespBytes, dur),
        0, ReqBytes, dur)

\* every recordable transport error handled as a lost connection
send_failed_strictly(t, outcome) ==
    IF outcome = "other"
    THEN [sl |-> t, out |-> <<>>, result |-> "error"]
    ELSE [sl |-> [t EXCEPT !.sample = record_error(@, "ConnectionAborted")],
          out |-> <<>>, result |-> "stop"]

\* The Err(e) arm of send(): the error is classified, recorded as a
\* ValidationError unless it is of no known class, and the result says
\* whether the batch goes on.
send_failed(t, outcome) ==
    CASE outcome = "aborted" ->
           [sl |-> [t EXCEPT !.sample = record_error(@, "ConnectionAborted")],
            out |-> <<>>, result |-> "stop"]
      [] outcome = "invalid" ->
           [sl |-> [t EXCEPT !.sample = record_error(@, "InvalidBody")],
            out |-> <<>>, result |-> "continue"]
      [] outcome = "timeout" ->
           [sl |-> [t EXCEPT !.sample = record_error(@, "Timeout")],
            out |-> <<>>, result |-> "continue"]
      [] OTHER ->
           [sl |-> t, out |-> <<>>, result |-> "error"]

\* send() returning Ok(true) whether the window's sample was taken or not
window_closed_whatever(ok) == "continue"

\* The end of send() when the window has elapsed: `return Ok(success)` with
\* the success of submit_sample.
window_closed(ok) == IF ok THEN "continue" ELSE "stop"

\* The part of send() after execute_req returned `outcome` dur seconds later:
\*   "ok"        a response the validator accepts
\*   "rejected"  a response the validator refuses
\*   "aborted"   is_body_write_aborted | is_closed | is_connect
\*   "invalid"   is_incomplete_message | is_parse | is_parse_too_large | is_parse_status
\*   "timeout"   is_timeout
\*   "other"     any other hyper::Error
\* result is "continue" for Ok(true), "stop" for Ok(false), "error" for Err(e).
send_end(sl, outcome, dur, id) ==
    LET t == [sl EXCEPT !.elapsed = @ + dur]
    IN CASE outcome \in {"aborted", "invalid", "timeout", "other"} ->
              send_failed(t, outcome)
         [] OTHER ->
              LET u == [t EXCEPT !.sample =
                          IF outcome = "rejected"
                          THEN record_error(@, "InvalidStatus")
                          ELSE record_success(@, dur)]
              IN IF should_submit(u.window, u.elapsed)
                 THEN LET r == submit_sample(u, u.sample.tag, id)
                      IN [sl |-> [r.sl EXCEPT !.nclose = @ + 1],
                          out |-> r.out,
                          result |-> window_closed(r.ok)]
                 ELSE [sl |-> u, out |-> <<>>, result |-> "continue"]

\* every request of a batch sent under the key the batch came with
batch_key_unnumbered(request_key, n) ==
    RequestKey(request_key.worker_id, request_key.request_id)

\* execute_batch: the key of the n-th request of a batch received with
\* request_key.
batch_key(request_key, n) ==
    RequestKey(request_key.worker_id, request_key.request_id + n)

\* execute_batch going on with the batch whatever send() returned
after_send_unchecked(res) ==
    IF res.sl.left > 1
    THEN send_begin([res.sl EXCEPT !.left = @ - 1])
    ELSE [res.sl EXCEPT !.left = 0, !.pc = "top"]

\* The match on the result of send() in the loop of execute_batch: the next
\* request of the batch is sent, or the batch is over, or the slot aborts.
after_send(res) ==
    IF res.result = "continue" /\ res.sl.left > 1
    THEN send_begin([res.sl EXCEPT !.left = @ - 1])
    ELSE [res.sl EXCEPT !.left = 0, !.pc = "top"]

\* the window restarted at every batch received
window_reset_always(sl, wait) ==
    [sl EXCEPT !.is_first_batch = FALSE, !.elapsed = 0]

\* execute_next_batch after recv_async: the first batch restarts the window
\* (last_sent_sample = Instant::now()); before any later batch the slot has
\* waited `wait` for the producer.
window_reset(sl, wait) ==
    IF sl.is_first_batch
    THEN [sl EXCEPT !.is_first_batch = FALSE, !.elapsed = 0]
    ELSE [sl EXCEPT !.elapsed = @ + wait]

\* a slot that takes every batch for one of the current sample's tag
tag_differs_never(sample_tag, batch_tag) == FALSE

\* execute_batch: `if self.sample.tag() != batch.tag`
tag_differs(sample_tag, batch_tag) == sample_tag # batch_tag

\* execute_next_batch up to the first await of execute_batch, for a received
\* batch: the first-batch window reset, the tag check and the first request.
receive_batch(sl, batch, wait, id) ==
    LET t == window_reset(sl, wait)
        r == IF tag_differs(t.sample.tag, batch.tag)
             THEN LET q == submit_sample(t, batch.tag, id)
                  IN [q EXCEPT !.sl.ntag = @ + 1]
             ELSE [sl |-> t, out |-> <<>>, ok |-> TRUE]
    IN IF r.ok /\ batch.len > 0
       THEN [sl |-> send_begin([r.sl EXCEPT !.left = batch.len]),
             out |-> r.out, abort |-> FALSE]
       ELSE [sl |-> [r.sl EXCEPT !.pc = "top"], out |-> r.out, abort |-> ~r.ok]

\* an HttpStream without a Drop: its JoinHandle is dropped with it, which
\* detaches the driver task and leaves it running
drop_detaching(sl) == sl

\* Drop for HttpStream: self.waiter.abort().  The stream is dropped with the
\* slot task's future, which owns the WorkerConnection.
drop_http_stream(sl) == [sl EXCEPT !.driver = "aborted"]

\* the slot task ending without submitting a sample that saw no request
finish_unless_empty(sl, id) ==
    IF sl.sample.total_requests = 0
    THEN [sl |-> drop_http_stream([sl EXCEPT !.pc = "done"]), out |-> <<>>]
    ELSE LET r == submit_sample(sl, 0, id)
         IN [sl |-> drop_http_stream([r.sl EXCEPT !.pc = "done"]), out |-> r.out]

\* The end of the slot task: "Submit the remaining sample."; the future
\* completes and what it owns is dropped.
finish(sl, id) ==
    LET r == submit_sample(sl, 0, id)
    IN [sl |-> drop_http_stream([r.sl EXCEPT !.pc = "done"]), out |-> r.out]

\* execute_next_batch returning true on a closed channel: the slot awaits
\* recv_async again
channel_closed_retry(sl, id) == [sl |-> sl, out |-> <<>>]

\* recv_async fails on the closed channel: execute_next_batch returns false
\* (`Err(_) => return false`), and the loop of the slot task breaks.
channel_closed(sl, id) == finish(sl, id)

\* the loop of the slot task not reading the flag
loop_top_unconditional(sl, stop, id) == [sl |-> [sl EXCEPT !.pc = "recv"], out |-> <<>>]

\* `while !shutdown.should_abort()` with the flag reading `stop`: the slot
\* leaves the loop, or calls execute_next_batch and awaits recv_async.
loop_top(sl, stop, id) ==
    IF stop THEN finish(sl, id) ELSE [sl |-> [sl EXCEPT !.pc = "recv"], out |-> <<>>]

\* a slot back at the top of its loop awaiting the next batch whatever the flag
resume_into_recv(sl, out, stop, id) ==
    [sl |-> IF sl.pc = "top" THEN [sl EXCEPT !.pc = "recv"] ELSE sl, out |-> out]

\* A slot that is back at the top of its loop (pc = "top") goes through it in
\* the same poll: there is no await between the end of execute_batch and
\* recv_async.  `out` is what the slot has put into the mailbox so far.
resume(sl, out, stop, id) ==
    IF sl.pc = "top"
    THEN LET r == loop_top(sl, stop, id) IN [sl |-> r.sl, out |-> out \o r.out]
    ELSE [sl |-> sl, out |-> out]

\* ------------------------------------------------------------ the producer
\* What the user's create_batch may return: the next batch of its script, or,
\* the script being over, any batch while its budget lasts, End, or an error.
\* An endless producer returns a batch at every call.
create_batch(p) ==
    IF p.script # <<>>
    THEN {[kind |-> "batch", batch |-> Head(p.script),
           script |-> Tail(p.script), budget |-> p.budget]}
    ELSE IF cfg.endless
    THEN {[kind |-> "batch", batch |-> [tag |-> t, len |-> n],
           script |-> <<>>, budget |-> p.budget] : t \in Tags, n \in Lens}
    ELSE {[kind |-> "batch", batch |-> [tag |-> t, len |-> n],
           script |-> <<>>, budget |-> p.budget - 1] :
             t \in {x \in Tags : p.budget > 0}, n \in Lens}
         \cup {[kind |-> e, batch |-> NoBatch, script |-> <<>>, budget |-> p.budget] :
                 e \in {"end"} \cup (IF cfg.may_fail THEN {"err"} ELSE {})}

\* The request key the actor of worker worker_id sends a batch with, the
\* batch's first request id being first_request_id.
first_key(worker_id, first_request_id) == RequestKey(worker_id, first_request_id)

\* The first request ids a batch may have.
Bases == 0..cfg.max_base

\* The history of a slot whose request in flight, the n-th of the last batch
\* it received, has got `outcome`: validator.validate(key, ..) is called in
\* send() when execute_req has returned a response.
validated(sl, outcome) ==
    IF ~cfg.track \/ outcome \notin {"ok", "rejected"} THEN sl
    ELSE LET g == sl.got[Len(sl.got)]
             n == g.sent - 1
         IN [sl EXCEPT !.got[Len(sl.got)].keys =
                          Append(@, [n |-> n, key |-> batch_key(g.key, n)])]

\* The history of a slot after a step that took it from `old` to `new`,
\* having received the batches `received` (none or one), with the shutdown
\* flag reading `flag` before the step: new.pc = "req" tells that the step
\* has sent a request, which the sample current after the step counts.
track(old, new, received, flag) ==
    IF ~cfg.track THEN new
    ELSE LET g == old.got \o [i \in 1..Len(received) |->
                                [no |-> received[i].no, len |-> received[i].len,
                                 tag |-> received[i].tag,
                                 key |-> received[i].key, keys |-> <<>>,
                                 sent |-> 0, late |-> 0]]
         IN IF new.pc = "req"
            THEN [new EXCEPT
                    !.got = [g EXCEPT ![Len(g)].sent = @ + 1,
                                      ![Len(g)].late = @ + (IF flag THEN 1 ELSE 0)],
                    !.sample.of_tags = @ \cup {g[Len(g)].tag}]
            ELSE [new EXCEPT !.got = g]

\* ------------------------------------------------------------------- Init
Outcomes == {"ok", "rejected", "aborted", "invalid", "timeout", "other"}
ConnectResults == {"ok", "err", "timeout"}

\* no connector or connection is looked at
ConnIdle == [pc |-> "idle"]

SwIdle == [num_workers |-> 1, concurrency |-> 0, per_worker_concurrency |-> 0,
           remaining_concurrency |-> 0, worker_id |-> 1, assigned |-> <<0>>]

\* What a configuration c that does not say so has: the validator, the
\* retry maximum and the warning threshold of create, set_* methods that
\* are called with the values the benchmark has already, and a caller that
\* may call run() again without awaiting the future of its earlier call.
Defaults(c) ==
    [await_runs |-> FALSE,
     validator |-> "default",
     retry_max |-> RETRY_MAX_DEFAULT,
     producer_wait_warning_threshold |-> DEFAULT_WAIT_WARNING_THRESHOLD,
     set_num_workers |-> {c.num_workers},
     set_sample_window |-> {c.sample_window},
     set_validator |-> {"default"},
     set_retry_max |-> {RETRY_MAX_DEFAULT},
     set_threshold |-> {DEFAULT_WAIT_WARNING_THRESHOLD}]

\* The state after ReWrkBenchmark::create and the calls of set_* that have
\* given it the configuration c.
InitWith(c) ==
    /\ cfg = c @@ Defaults(c)
    /\ should_stop = FALSE
    /\ orch = "created"
    /\ runs = 0
    /\ waiter = [r \in RunIds |-> "none"]
    /\ cfg_sender = TRUE
    /\ wk = [w \in WorkerIds |-> IdleWorker]
    /\ slot = [w \in WorkerIds |-> [k \in SlotIds |-> NoSlot(WorkerIdOf(w))]]
    /\ prod = [w \in WorkerIds |-> NoProducer]
    /\ queue = [w \in WorkerIds |-> <<>>]
    /\ mailbox = <<>>
    /\ coll = "running"
    /\ processed = <<>>

\* Concurrent runs: several workers and slots; each producer emits at most
\* RunBatches batches of one request, which succeeds or loses its connection.
RunConfigs ==
    {[num_workers |-> nw, concurrency |-> c, sample_window |-> Window,
      script |-> <<>>, budget |-> RunBatches, may_fail |-> TRUE,
      outcomes |-> {"ok", "aborted"}, connects |-> ConnectResults,
      max_tag |-> 0, min_len |-> 1, max_len |-> 1,
      max_latency |-> 1, max_wait |-> 0, max_base |-> 0,
      metadata_concurrency_id |-> 0,
      max_runs |-> 1, endless |-> FALSE, track |-> FALSE] :
        nw \in 1..MaxWorkers, c \in 0..MaxConcurrency}

Init == /\ \E c \in RunConfigs : InitWith(c)
        /\ sw = SwIdle /\ conn = ConnIdle

\* Single-slot runs: one worker with one slot, any batches and any outcomes.
SlotConfig ==
    [num_workers |-> 1, concurrency |-> 1, sample_window |-> Window,
     script |-> <<>>, budget |-> SlotBatches, may_fail |-> TRUE,
     outcomes |-> Outcomes, connects |-> ConnectResults,
     max_tag |-> MaxTag, min_len |-> 0, max_len |-> MaxBatchLen,
     max_latency |-> MaxLatency, max_wait |-> MaxWait, max_base |-> 0,
     metadata_concurrency_id |-> 0,
      max_runs |-> 1, endless |-> FALSE, track |-> FALSE]

InitSlot == InitWith(SlotConfig) /\ sw = SwIdle /\ conn = ConnIdle

\* The tag-switch scenario: one worker, one slot, the default window, a
\* producer that emits 5 requests with tag 1, 5 with tag 2, then End, and a
\* server that answers every request with a response the validator accepts.
TagSwitchConfig ==
    [num_workers |-> 1, concurrency |-> 1, sample_window |-> DefaultWindow,
     script |-> <<[tag |-> 1, len |-> ScenarioLen], [tag |-> 2, len |-> ScenarioLen]>>,
     budget |-> 0, may_fail |-> FALSE,
     outcomes |-> {"ok"}, connects |-> {"ok"},
     max_tag |-> 2, min_len |-> ScenarioLen, max_len |-> ScenarioLen,
     max_latency |-> MaxLatency, max_wait |-> 0, max_base |-> 0,
     metadata_concurrency_id |-> 0,
      max_runs |-> 1, endless |-> FALSE, track |-> FALSE]

InitTagSwitch == InitWith(TagSwitchConfig) /\ sw = SwIdle /\ conn = ConnIdle

\* Repeated runs: run() is called up to MaxRuns times on one benchmark, at
\* any time, also while an earlier run is under way; the slots' histories
\* are kept.
RerunConfigs ==
    {[num_workers |-> 1, concurrency |-> c, sample_window |-> Window,
      script |-> <<>>, budget |-> RunBatches, may_fail |-> FALSE,
      outcomes |-> {"ok", "aborted"}, connects |-> {"ok", "err"},
      max_tag |-> 0, min_len |-> 1, max_len |-> 1,
      max_latency |-> 1, max_wait |-> 0, max_base |-> 0,
      metadata_concurrency_id |-> 0,
      max_runs |-> MaxRuns, endless |-> FALSE, track |-> TRUE] :
        c \in 0..1}

\* Runs awaited and reconfigured: the caller awaits the future of each run()
\* before the next call, and at any time it may call set_num_workers(MaxWorkers)
\* and set_sample_window(1 s) on the benchmark, created with one worker and
\* the window Window.
ReconfigureConfigs ==
    {[num_workers |-> 1, concurrency |-> c, sample_window |-> Window,
      await_runs |-> TRUE,
      set_num_workers |-> {MaxWorkers}, set_sample_window |-> {1},
      script |-> <<>>, budget |-> RunBatches, may_fail |-> FALSE,
      outcomes |-> {"ok", "aborted"}, connects |-> {"ok"},
      max_tag |-> 0, min_len |-> 1, max_len |-> 1,
      max_latency |-> 1, max_wait |-> 0, max_base |-> 0,
      metadata_concurrency_id |-> 0,
      max_runs |-> MaxRuns, endless |-> FALSE, track |-> TRUE] :
        c \in {1}}

InitReconfigure == /\ \E c \in ReconfigureConfigs : InitWith(c)
                   /\ sw = SwIdle /\ conn = ConnIdle

InitRerun == /\ \E c \in RerunConfigs : InitWith(c)
             /\ sw = SwIdle /\ conn = ConnIdle

\* Runs to be shut down: one worker whose producer either emits up to
\* RunBatches batches of one request and then End, or is endless and emits
\* empty batches for ever.
DrainConfigs ==
    {[num_workers |-> 1, concurrency |-> c, sample_window |-> Window,
      script |-> <<>>, budget |-> RunBatches, may_fail |-> FALSE,
      outcomes |-> {"ok", "aborted"}, connects |-> ConnectResults,
      max_tag |-> 0, min_len |-> IF e THEN 0 ELSE 1, max_len |-> IF e THEN 0 ELSE 1,
      max_latency |-> 1, max_wait |-> 0, max_base |-> 0,
      metadata_concurrency_id |-> 0,
      max_runs |-> 1, endless |-> e, track |-> FALSE] :
        c \in 1..MaxConcurrency, e \in BOOLEAN}

InitDrain == /\ \E c \in DrainConfigs : InitWith(c)
             /\ sw = SwIdle /\ conn = ConnIdle

\* Batch-order runs: one worker with one or two slots, a producer that emits
\* up to OrderBatches batches of up to OrderBatchLen requests; every request
\* succeeds, and the slots' histories are kept.
BatchConfigs ==
    {[num_workers |-> 1, concurrency |-> c, sample_window |-> Window,
      script |-> <<>>, budget |-> OrderBatches, may_fail |-> FALSE,
      outcomes |-> {"ok"}, connects |-> {"ok"},
      max_tag |-> 0, min_len |-> 1, max_len |-> OrderBatchLen,
      max_latency |-> 1, max_wait |-> 0, max_base |-> 0,
      metadata_concurrency_id |-> 0,
      max_runs |-> 1, endless |-> FALSE, track |-> TRUE] :
        c \in 1..MaxConcurrency}

InitBatches == /\ \E c \in BatchConfigs : InitWith(c)
               /\ sw = SwIdle /\ conn = ConnIdle

\* Back-pressure runs: one worker with one slot and a producer that emits up
\* to FillBatches batches of one request, more than the channel holds.
FillConfig ==
    [num_workers |-> 1, concurrency |-> 1, sample_window |-> Window,
     script |-> <<>>, budget |-> FillBatches, may_fail |-> TRUE,
     outcomes |-> {"ok"}, connects |-> {"ok"},
     max_tag |-> 0, min_len |-> 1, max_len |-> 1,
     max_latency |-> 1, max_wait |-> 0, max_base |-> 0,
     metadata_concurrency_id |-> 0,
      max_runs |-> 1, endless |-> FALSE, track |-> TRUE]

InitFill == InitWith(FillConfig) /\ sw = SwIdle /\ conn = ConnIdle

\* Validation runs: one worker with one slot, batches of up to OrderBatchLen
\* requests; every request gets a response, which the validator accepts or
\* refuses.
ValidationConfig ==
    [num_workers |-> 1, concurrency |-> 1, sample_window |-> Window,
     script |-> <<>>, budget |-> SlotBatches, may_fail |-> FALSE,
     outcomes |-> {"ok", "rejected"}, connects |-> {"ok"},
     max_tag |-> 0, min_len |-> 1, max_len |-> OrderBatchLen,
     max_latency |-> MaxLatency, max_wait |-> 0, max_base |-> 0,
     metadata_concurrency_id |-> 0,
      max_runs |-> 1, endless |-> FALSE, track |-> TRUE]

InitValidation == InitWith(ValidationConfig) /\ sw = SwIdle /\ conn = ConnIdle

\* Failing requests: one worker with one slot, batches of one or two
\* requests, every outcome of execute_req possible for every request.
ErrorConfig ==
    [num_workers |-> 1, concurrency |-> 1, sample_window |-> Window,
     script |-> <<>>, budget |-> SlotBatches, may_fail |-> FALSE,
     outcomes |-> Outcomes, connects |-> {"ok"},
     max_tag |-> 0, min_len |-> 1, max_len |-> OrderBatchLen,
     max_latency |-> 1, max_wait |-> 0, max_base |-> 0,
     metadata_concurrency_id |-> 0,
     max_runs |-> 1, endless |-> FALSE, track |-> TRUE]

InitErrors == InitWith(ErrorConfig) /\ sw = SwIdle /\ conn = ConnIdle

\* Runs with a collector that may panic: one worker with one slot, batches
\* of one or two requests with tags 0..MaxTag, every request successful.
CrashConfig ==
    [num_workers |-> 1, concurrency |-> 1, sample_window |-> Window,
     script |-> <<>>, budget |-> SlotBatches, may_fail |-> FALSE,
     outcomes |-> {"ok"}, connects |-> {"ok"},
     max_tag |-> MaxTag, min_len |-> 1, max_len |-> OrderBatchLen,
     max_latency |-> MaxLatency, max_wait |-> 0, max_base |-> 0,
     metadata_concurrency_id |-> 0,
     max_runs |-> 1, endless |-> FALSE, track |-> TRUE]

InitCrash == InitWith(CrashConfig) /\ sw = SwIdle /\ conn = ConnIdle

\* Tagged runs: one worker with one slot, three batches of one or two
\* requests with tags 0..MaxTag, every request successful.
TagConfig ==
    [num_workers |-> 1, concurrency |-> 1, sample_window |-> Window,
     script |-> <<>>, budget |-> OrderBatches, may_fail |-> FALSE,
     outcomes |-> {"ok"}, connects |-> {"ok"},
     max_tag |-> MaxTag, min_len |-> 1, max_len |-> OrderBatchLen,
     max_latency |-> 1, max_wait |-> 0, max_base |-> 0,
     metadata_concurrency_id |-> 0,
     max_runs |-> 1, endless |-> FALSE, track |-> TRUE]

InitTags == InitWith(TagConfig) /\ sw = SwIdle /\ conn = ConnIdle

\* Keyed runs: two workers with one slot each, each producer emitting up to
\* RunBatches batches of OrderBatchLen requests with a first request id of
\* 0..MaxBase; every request gets a response, which the validator accepts
\* or refuses.
KeyConfig ==
    [num_workers |-> MaxWorkers, concurrency |-> MaxWorkers, sample_window |-> Window,
     script |-> <<>>, budget |-> RunBatches, may_fail |-> FALSE,
     outcomes |-> {"ok", "rejected"}, connects |-> {"ok"},
     max_tag |-> 0, min_len |-> OrderBatchLen, max_len |-> OrderBatchLen,
     max_latency |-> 1, max_wait |-> 0, max_base |-> MaxBase,
     metadata_concurrency_id |-> 0,
     max_runs |-> 1, endless |-> FALSE, track |-> TRUE]

InitKeys == InitWith(KeyConfig) /\ sw = SwIdle /\ conn = ConnIdle

\* Merging runs: one worker with one or two slots, batches of one request
\* with tags 0..MaxTag, every request successful; the collector adds every
\* sample it is handed to a SampleMerger.
MergeConfigs ==
    {[num_workers |-> 1, concurrency |-> c, sample_window |-> Window,
      script |-> <<>>, budget |-> SlotBatches, may_fail |-> FALSE,
      outcomes |-> {"ok"}, connects |-> {"ok"},
      max_tag |-> MaxTag, min_len |-> 1, max_len |-> 1,
      max_latency |-> MaxLatency, max_wait |-> 0, max_base |-> 0,
      metadata_concurrency_id |-> m,
      max_runs |-> 1, endless |-> FALSE, track |-> FALSE] :
        c \in 1..MaxConcurrency, m \in SlotIds}

InitMerge == /\ \E c \in MergeConfigs : InitWith(c)
             /\ sw = SwIdle /\ conn = ConnIdle

\* Partitioning runs: only spawn_workers is run, one loop iteration a step.
InitPartition ==
    /\ InitWith(SlotConfig)
    /\ \E num_workers \in 1..PartWorkers, concurrency \in 0..PartConcurrency :
         sw = spawn_begin(num_workers, concurrency)
    /\ conn = ConnIdle

\* -------------------------------------------------------------- connector
\* ReWrkConnector::connect_timeout(dur) at its start.  Time is counted in
\* units of 500 ms, the length of the sleep between two attempts, from the
\* call on: deadline = Instant::now() + dur.  attempts counts the calls of
\* connect(), sleeps the sleeps; an error is named by the number of the
\* attempt it came from; last_error = 0 is None.
connect_begin(retry_max, dur) ==
    [pc |-> "attempt", retry_max |-> retry_max, deadline |-> dur, now |-> 0,
     attempts_left |-> retry_max, last_error |-> 0, attempts |-> 0, sleeps |-> 0,
     result |-> [kind |-> "pending", error |-> 0, elapsed |-> FALSE]]

\* `Err(_) =>`: timeout_at has elapsed.  The error of the last failed attempt
\* is returned if there is one, Ok(None) otherwise.
elapsed_result(last_error) ==
    IF last_error # 0
    THEN [kind |-> "err", error |-> last_error, elapsed |-> TRUE]
    ELSE [kind |-> "none", error |-> 0, elapsed |-> TRUE]

\* a budget that allows one retry more
budget_exhausted_late(attempts_left) == attempts_left < 0

\* `if attempts_left == 0 { return Err(e); }`
budget_exhausted(attempts_left) == attempts_left = 0

\* One iteration of the loop of connect_timeout up to its end or its sleep:
\* connect() is called and, after `took` units, is through with `outcome`
\* ("ok" or "err"), unless timeout_at elapses first (in_time = FALSE).
connect_attempt(c, outcome, took, in_time) ==
    LET n == c.attempts + 1
        t == [c EXCEPT !.attempts = n]
    IN IF ~in_time
       THEN [t EXCEPT !.pc = "returned",
                      !.now = IF c.now < c.deadline THEN c.deadline ELSE c.now,
                      !.result = elapsed_result(c.last_error)]
       ELSE IF outcome = "ok"
       THEN [t EXCEPT !.pc = "returned", !.now = @ + took,
                      !.result = [kind |-> "conn", error |-> 0, elapsed |-> FALSE]]
       ELSE IF budget_exhausted(c.attempts_left)
       THEN [t EXCEPT !.pc = "returned", !.now = @ + took,
                      !.result = [kind |-> "err", error |-> n, elapsed |-> FALSE]]
       ELSE [t EXCEPT !.pc = "sleep", !.now = @ + took,
                      !.attempts_left = @ - 1, !.last_error = n]

\* timeout_at(deadline, connect()) polls connect() first and the deadline
\* after it: an attempt that is through before the deadline is in time, one
\* that would end after it is not, and one that ends at the deadline, or
\* fails in its first poll when the deadline is past, may be either.
InTime(c, outcome, took) ==
    IF c.now + took < c.deadline THEN {TRUE}
    ELSE IF c.now + took = c.deadline \/ (took = 0 /\ outcome = "err")
    THEN {TRUE, FALSE}
    ELSE {FALSE}

ConnectAttempt ==
    /\ conn.pc = "attempt"
    /\ \E outcome \in {"ok", "err"}, took \in 0..MaxAttemptTime :
         /\ outcome = "ok" => took > 0
         /\ \E in_time \in InTime(conn, outcome, took) :
              conn' = connect_attempt(conn, outcome, took, in_time)
    /\ UNCHANGED <<cfg, runs, should_stop, orch, waiter, cfg_sender, wk, slot, prod,
                   queue, mailbox, coll, processed, sw>>

\* tokio::time::sleep(Duration::from_millis(500)).await, which the deadline
\* does not cut short
ConnectSleep ==
    /\ conn.pc = "sleep"
    /\ conn' = [conn EXCEPT !.pc = "attempt", !.now = @ + 1, !.sleeps = @ + 1]
    /\ UNCHANGED <<cfg, runs, should_stop, orch, waiter, cfg_sender, wk, slot, prod,
                   queue, mailbox, coll, processed, sw>>

\* Connecting runs: connect_timeout alone, for every retry maximum up to
\* MaxRetry and every duration up to MaxDeadline.
InitConnect ==
    /\ InitWith(SlotConfig)
    /\ sw = SwIdle
    /\ \E retry_max \in 0..MaxRetry, dur \in 1..MaxDeadline :
         conn = connect_begin(retry_max, dur)

NextConnect == ConnectAttempt \/ ConnectSleep

SpecConnect == InitConnect /\ [][NextConnect]_vars

\* ------------------------------------------------------------- connection
\* A ReWrkConnection between two calls of execute_req.  calls counts the
\* calls of execute_req, sent the calls of send_request of the current one,
\* sleeps its back-off sleeps; yields is the number of durations that
\* `for duration in &backoff` goes through.
connection_new(retry_429s, yields) ==
    [pc |-> "ready", retry_429s |-> retry_429s, yields |-> yields, calls |-> 0,
     attempt |-> 0, left |-> 0, sent |-> 0, sleeps |-> 0,
     result |-> "none"]

\* `for duration in &backoff` with Backoff::new(12, BACKOFF_MIN, BACKOFF_MAX):
\* how many durations the iterator yields is the exponential_backoff crate's
\* to say, not execute_req's; any number from none to one more than the
\* argument is taken.
BackoffLens == 0..(BACKOFF_RETRIES + 1)

\* execute_req when the loop over the back-off durations has run out: the
\* code after the `if self.retry_429s { .. }` block is reached.
after_backoff(c) == [c EXCEPT !.pc = "last"]

\* execute_req up to its first send_request: inside the loop with rate-limit
\* retry enabled, after the block without it.
execute_req_begin(c) ==
    IF c.retry_429s /\ c.yields > 0
    THEN [c EXCEPT !.pc = "send", !.calls = @ + 1, !.attempt = 1,
                   !.left = c.yields, !.sent = 0, !.sleeps = 0, !.result = "none"]
    ELSE [c EXCEPT !.pc = "last", !.calls = @ + 1, !.attempt = 0,
                   !.left = 0, !.sent = 0, !.sleeps = 0, !.result = "none"]

\* send_request(..).await and to_bytes(body).await are through with
\* `response`: "send-error" and "body-error" for a hyper::Error of the one
\* and the other, "429" for a TOO_MANY_REQUESTS response, "200" and "500"
\* for responses of another status.
send_request(c, response) ==
    LET t == [c EXCEPT !.sent = @ + 1]
    IN IF response = "send-error"
       THEN [t EXCEPT !.pc = "returned", !.result = "error"]
       ELSE IF c.pc = "send" /\ response = "429"
       THEN [t EXCEPT !.pc = "sleep"]
       ELSE IF response = "body-error"
       THEN [t EXCEPT !.pc = "returned", !.result = "error"]
       ELSE [t EXCEPT !.pc = "returned", !.result = response]

\* tokio::time::sleep(duration).await; attempt += 1; continue
backoff_sleep(c) ==
    LET t == [c EXCEPT !.sleeps = @ + 1, !.attempt = @ + 1, !.left = @ - 1]
    IN IF t.left > 0 THEN [t EXCEPT !.pc = "send"] ELSE after_backoff(t)

Responses == {"200", "429", "500", "send-error", "body-error"}

ExecuteReq ==
    /\ conn.pc \in {"ready", "returned"}
    /\ conn.calls < MaxRequests
    /\ conn' = execute_req_begin(conn)
    /\ UNCHANGED <<cfg, runs, should_stop, orch, waiter, cfg_sender, wk, slot, prod,
                   queue, mailbox, coll, processed, sw>>

SendRequest ==
    /\ conn.pc \in {"send", "last"}
    /\ \E response \in Responses : conn' = send_request(conn, response)
    /\ UNCHANGED <<cfg, runs, should_stop, orch, waiter, cfg_sender, wk, slot, prod,
                   queue, mailbox, coll, processed, sw>>

BackoffSleep ==
    /\ conn.pc = "sleep"
    /\ conn' = backoff_sleep(conn)
    /\ UNCHANGED <<cfg, runs, should_stop, orch, waiter, cfg_sender, wk, slot, prod,
                   queue, mailbox, coll, processed, sw>>

\* Request runs: a connection made by a connector with rate-limit retry
\* disabled (ReWrkConnector::new) or enabled (enable_ratelimit_retry), on
\* which execute_req is called up to MaxRequests times.
InitRequest ==
    /\ InitWith(SlotConfig)
    /\ sw = SwIdle
    /\ \E retry_429s \in BOOLEAN, yields \in BackoffLens :
         conn = connection_new(retry_429s, yields)

NextRequest == ExecuteReq \/ SendRequest \/ BackoffSleep

SpecRequest == InitRequest /\ [][NextRequest]_vars

\* ------------------------------------------------------- transfer rates
\* A sample on which transfer rates are recorded.  last describes the last
\* call: the series it pushed to, the byte counts and the duration it was
\* given.
NoCall == [op |-> "none", start |-> 0, stop |-> 0, dur |-> 0]

rates_new == [pc |-> "sample", sample |-> new_sample(0, 0), last |-> NoCall]

\* The arguments of a call: byte counts with stop >= start (the counters
\* never go down) and a duration, zero included.
TransferArgs ==
    {[start |-> a, stop |-> b, dur |-> d] :
        a \in 0..MaxCount, b \in 0..MaxCount, d \in 0..MaxDur}

RecordReadTransfer ==
    /\ conn.pc = "sample"
    /\ Len(conn.sample.read_transfer) < MaxRates
    /\ \E a \in {x \in TransferArgs : x.stop >= x.start} :
         conn' = [conn EXCEPT
                    !.sample = record_read_transfer(@, a.start, a.stop, a.dur),
                    !.last = [op |-> "read", start |-> a.start,
                              stop |-> a.stop, dur |-> a.dur]]
    /\ UNCHANGED <<cfg, runs, should_stop, orch, waiter, cfg_sender, wk, slot, prod,
                   queue, mailbox, coll, processed, sw>>

RecordWriteTransfer ==
    /\ conn.pc = "sample"
    /\ Len(conn.sample.write_transfer) < MaxRates
    /\ \E a \in {x \in TransferArgs : x.stop >= x.start} :
         conn' = [conn EXCEPT
                    !.sample = record_write_transfer(@, a.start, a.stop, a.dur),
                    !.last = [op |-> "write", start |-> a.start,
                              stop |-> a.stop, dur |-> a.dur]]
    /\ UNCHANGED <<cfg, runs, should_stop, orch, waiter, cfg_sender, wk, slot, prod,
                   queue, mailbox, coll, processed, sw>>

\* Rate runs: a new sample given up to MaxRates read and write transfers.
InitRates == InitWith(SlotConfig) /\ sw = SwIdle /\ conn = rates_new

NextRates == RecordReadTransfer \/ RecordWriteTransfer

SpecRates == InitRates /\ [][NextRates]_vars

\* ---------------------------------------------------------- IoUsageTracker
\* IoUsageTracker::new with the stream it wraps.  io describes the last
\* poll: which it was, the counter before it, the bytes already filled in
\* the ReadBuf (prior), the length of the buffer offered for writing (len),
\* what the inner stream returned (kind) and the bytes it read or accepted (n).
NoPoll == [op |-> "none", before |-> 0, prior |-> 0, len |-> 0, kind |-> "none", n |-> 0]

usage_new == [pc |-> "stream", received |-> 0, written |-> 0, io |-> NoPoll]

\* What inner.poll_read can return for a ReadBuf with room for MaxChunk
\* bytes more: Ready(Ok(())) having appended n bytes, Pending or an error
\* having appended none.
ReadResults ==
    {[kind |-> "ready", n |-> n] : n \in 0..MaxChunk}
    \cup {[kind |-> "pending", n |-> 0], [kind |-> "error", n |-> 0]}

\* What inner.poll_write can return for a buffer of len bytes: Ready(Ok(n))
\* with n <= len, Pending or an error.
WriteResults(len) ==
    {[kind |-> "ready", n |-> n] : n \in 0..len}
    \cup {[kind |-> "pending", n |-> 0], [kind |-> "error", n |-> 0]}

\* RecordStream::poll_read: the inner stream is polled, then
\* received.fetch_add(buf.filled().len()), the filled part of the buffer
\* being what was in it before the poll and what the poll has appended.
poll_read(c, prior, res) ==
    [c EXCEPT !.received = @ + (prior + res.n),
              !.io = [op |-> "read", before |-> c.received, prior |-> prior,
                      len |-> 0, kind |-> res.kind, n |-> res.n]]

\* RecordStream::poll_write: written.fetch_add(buf.len()), then the inner
\* stream is polled.
poll_write(c, len, res) ==
    [c EXCEPT !.written = @ + len,
              !.io = [op |-> "write", before |-> c.written, prior |-> 0,
                      len |-> len, kind |-> res.kind, n |-> res.n]]

PollRead ==
    /\ conn.pc = "stream"
    /\ \E prior \in 0..MaxFilled, res \in ReadResults :
         /\ conn.received + prior + res.n <= MaxBytes
         /\ conn' = poll_read(conn, prior, res)
    /\ UNCHANGED <<cfg, runs, should_stop, orch, waiter, cfg_sender, wk, slot, prod,
                   queue, mailbox, coll, processed, sw>>

PollWrite ==
    /\ conn.pc = "stream"
    /\ \E len \in 1..MaxChunk :
         /\ conn.written + len <= MaxBytes
         /\ \E res \in WriteResults(len) : conn' = poll_write(conn, len, res)
    /\ UNCHANGED <<cfg, runs, should_stop, orch, waiter, cfg_sender, wk, slot, prod,
                   queue, mailbox, coll, processed, sw>>

\* Usage runs: a wrapped stream polled for reading and for writing until
\* MaxBytes are counted.
InitUsage == InitWith(SlotConfig) /\ sw = SwIdle /\ conn = usage_new

NextUsage == PollRead \/ PollWrite

SpecUsage == InitUsage /\ [][NextUsage]_vars

\* ----------------------------------------------------------- orchestrator
\* a ShutdownHandle made anew for the run
shutdown_default(flag) == FALSE

\* self.shutdown.clone(): the handle of the run shares the flag of the
\* orchestrator's, whatever it reads
shutdown_clone(flag) == flag

\* The producer given to create, which the orchestrator holds and never runs.
config_producer == [NoProducer EXCEPT !.script = cfg.script, !.budget = cfg.budget]

\* config.clone_for_worker: the worker's producer is a clone of the
\* orchestrator's p, made by for_worker: it starts from the beginning
\* whatever the producers of earlier runs have done.
clone_for_worker(p) == [p EXCEPT !.pc = "wait"]

\* The clone of worker_config every thread of a run is given.
worker_config ==
    [sample_window |-> cfg.sample_window, validator |-> cfg.validator,
     retry_max |-> cfg.retry_max,
     producer_wait_warning_threshold |-> cfg.producer_wait_warning_threshold]

\* ReWrkBenchmark::run: spawn_workers, and the threads it starts up to the
\* first await of run_worker (the producer actor is spawned, not yet polled).
\* It takes &self and may be called at any time before consume_collector,
\* also while the future or the threads of an earlier call are still there
\* (cfg.await_runs is the caller's program: it awaits the future of each call
\* before it calls run() again);
\* every worker is given a clone of worker_config as it is at the call,
\* hence a producer that has not emitted anything.
Run ==
    /\ orch \in {"created", "running", "ran"}
    /\ runs < cfg.max_runs
    /\ cfg.await_runs => \A q \in 1..runs : waiter[q] = "done"
    /\ runs' = runs + 1
    /\ should_stop' = shutdown_clone(should_stop)
    /\ LET assigned == spawn_workers(cfg.num_workers, cfg.concurrency)
           spawned == {w \in ThreadsOf(runs + 1) : WorkerIdOf(w) < cfg.num_workers}
       IN /\ wk' = [w \in WorkerIds |->
                      IF w \in spawned
                      THEN [pc |-> "run", concurrency |-> assigned[WorkerIdOf(w) + 1],
                            connected |-> 0, config |-> worker_config,
                            rerun |-> runs > 0 /\ \A q \in 1..runs : waiter[q] = "done"]
                      ELSE wk[w]]
          /\ prod' = [w \in WorkerIds |->
                        IF w \in spawned THEN clone_for_worker(config_producer) ELSE prod[w]]
    /\ orch' = "running"
    /\ waiter' = [waiter EXCEPT ![runs + 1] = "pending"]
    /\ UNCHANGED <<cfg, cfg_sender, slot, queue, mailbox, coll, processed, sw, conn>>

\* The future of the r-th run() resolves.
RunComplete(r) ==
    /\ waiter[r] = "pending"
    /\ run_future_ready(r)
    /\ waiter' = [waiter EXCEPT ![r] = "done"]
    /\ orch' = IF orch = "running" /\ \A q \in RunIds \ {r} : waiter[q] # "pending"
               THEN "ran" ELSE orch
    /\ UNCHANGED <<cfg, runs, should_stop, cfg_sender, wk, slot, prod, queue, mailbox,
                   coll, processed, sw, conn>>

\* ReWrkBenchmark::set_num_workers
SetNumWorkers ==
    /\ orch \in {"created", "running", "ran"}
    /\ \E n \in cfg.set_num_workers : cfg' = [cfg EXCEPT !.num_workers = n]
    /\ UNCHANGED <<runs, should_stop, orch, waiter, cfg_sender, wk, slot, prod, queue,
                   mailbox, coll, processed, sw, conn>>

\* ReWrkBenchmark::set_sample_window
SetSampleWindow ==
    /\ orch \in {"created", "running", "ran"}
    /\ \E dur \in cfg.set_sample_window : cfg' = [cfg EXCEPT !.sample_window = dur]
    /\ UNCHANGED <<runs, should_stop, orch, waiter, cfg_sender, wk, slot, prod, queue,
                   mailbox, coll, processed, sw, conn>>

\* ReWrkBenchmark::set_validator
SetValidator ==
    /\ orch \in {"created", "running", "ran"}
    /\ \E v \in cfg.set_validator : cfg' = [cfg EXCEPT !.validator = v]
    /\ UNCHANGED <<runs, should_stop, orch, waiter, cfg_sender, wk, slot, prod, queue,
                   mailbox, coll, processed, sw, conn>>

\* ReWrkBenchmark::set_connection_retry_max
SetConnectionRetryMax ==
    /\ orch \in {"created", "running", "ran"}
    /\ \E max \in cfg.set_retry_max : cfg' = [cfg EXCEPT !.retry_max = max]
    /\ UNCHANGED <<runs, should_stop, orch, waiter, cfg_sender, wk, slot, prod, queue,
                   mailbox, coll, processed, sw, conn>>

\* ReWrkBenchmark::set_producer_wait_warning_threshold
SetProducerWaitWarningThreshold ==
    /\ orch \in {"created", "running", "ran"}
    /\ \E pct \in cfg.set_threshold :
         cfg' = [cfg EXCEPT !.producer_wait_warning_threshold = pct]
    /\ UNCHANGED <<runs, should_stop, orch, waiter, cfg_sender, wk, slot, prod, queue,
                   mailbox, coll, processed, sw, conn>>

\* ReWrkBenchmark::shutdown
Shutdown ==
    /\ orch \in {"created", "running", "ran"}
    /\ ~should_stop
    /\ should_stop' = TRUE
    /\ UNCHANGED <<cfg, runs, orch, waiter, cfg_sender, wk, slot, prod, queue, mailbox,
                   coll, processed, sw, conn>>

\* ReWrkBenchmark::consume_collector up to its await
ConsumeCollector ==
    /\ orch \in {"created", "running", "ran"}
    /\ should_stop' = TRUE
    /\ cfg_sender' = FALSE
    /\ orch' = "consuming"
    /\ UNCHANGED <<cfg, runs, waiter, wk, slot, prod, queue, mailbox, coll, processed, sw, conn>>

\* consume_collector returns: the join handle of the collector actor resolved
CollectorJoined ==
    /\ orch = "consuming"
    /\ coll = "exited"
    /\ orch' = "consumed"
    /\ UNCHANGED <<cfg, runs, should_stop, waiter, cfg_sender, wk, slot, prod, queue,
                   mailbox, coll, processed, sw, conn>>

\* ---------------------------------------------------------- collector actor
\* the loop skipping a sample that recorded no request
collector_step_skipping_empty(sample) ==
    IF sample.total_requests = 0 THEN <<>> ELSE <<sort_values(sample)>>

\* What one iteration of the actor's loop hands to process_sample.
collector_step(sample) == <<sort_values(sample)>>

CollectorProcess ==
    /\ coll = "running"
    /\ mailbox # <<>>
    /\ processed' = processed \o collector_step(Head(mailbox))
    /\ mailbox' = Tail(mailbox)
    /\ UNCHANGED <<cfg, runs, should_stop, orch, waiter, cfg_sender, wk, slot, prod,
                   queue, coll, sw, conn>>

\* rx.recv_async() fails: the mailbox is empty and every sender is dropped
CollectorExit ==
    /\ coll = "running"
    /\ mailbox = <<>>
    /\ mailbox_senders = {}
    /\ coll' = "exited"
    /\ UNCHANGED <<cfg, runs, should_stop, orch, waiter, cfg_sender, wk, slot, prod,
                   queue, mailbox, processed, sw, conn>>

\* process_sample panics on the sample it is handed: the actor's task ends
\* there, its receiver is dropped with the samples still queued, and the
\* mailbox is disconnected.  (consume_collector then panics on "Join task".)
CollectorPanic ==
    /\ coll = "running"
    /\ mailbox # <<>>
    /\ coll' = "panicked"
    /\ mailbox' = <<>>
    /\ UNCHANGED <<cfg, runs, should_stop, orch, waiter, cfg_sender, wk, slot, prod,
                   queue, processed, sw, conn>>

\* ------------------------------------------------------------- run_worker
\* a failed connection that leaves the flag as it is
connect_failed_quietly(flag) == flag

\* The flag after connect_timeout has returned an error or None:
\* `if !shutdown.should_abort() { .. shutdown.set_abort(); }`
connect_failed(flag) == IF ~flag THEN TRUE ELSE flag

\* One create_worker_connection of run_worker's loop.
WorkerConnect(w) ==
    /\ wk[w].pc = "run"
    /\ wk[w].connected < wk[w].concurrency
    /\ \E r \in cfg.connects :
         IF r = "ok"
         THEN /\ slot' = [slot EXCEPT ![w][wk[w].connected] =
                              NewConnection(WorkerIdOf(w), wk[w].config.sample_window)]
              /\ wk' = [wk EXCEPT ![w].connected = @ + 1]
              /\ UNCHANGED should_stop
         ELSE /\ should_stop' = connect_failed(should_stop)
              /\ slot' = [slot EXCEPT ![w] =
                            [k \in SlotIds |->
                               IF slot[w][k].pc \in {"top", "recv", "req"}
                               THEN [slot[w][k] EXCEPT !.pc = "aborted"]
                               ELSE slot[w][k]]]
              /\ wk' = [wk EXCEPT ![w].pc = "finished"]
    /\ UNCHANGED <<cfg, runs, orch, waiter, cfg_sender, prod, queue, mailbox, coll,
                   processed, sw, conn>>

\* a join that resolves only when there is a task to resolve it
join_all_of_some(w) ==
    /\ SlotsOf(w) # {}
    /\ \A k \in SlotsOf(w) : slot[w][k].pc = "done"

\* join_all(pending_futures) is ready: every slot task of the worker is
\* over, which is so at once for a worker that has none.
join_all(w) == \A k \in SlotsOf(w) : slot[w][k].pc = "done"

\* "Begin benchmarking": ready_tx.send(()), then join_all is awaited.  With
\* no slot task join_all resolves in the same poll and run_worker returns
\* before the producer actor is polled; with slot tasks the one spawned last
\* has not been polled, and join_all is pending.
WorkerReady(w) ==
    /\ wk[w].pc = "run"
    /\ wk[w].connected = wk[w].concurrency
    /\ wk' = [wk EXCEPT ![w].pc = IF join_all(w) THEN "finished" ELSE "join"]
    /\ UNCHANGED <<cfg, runs, should_stop, orch, waiter, cfg_sender, slot, prod, queue,
                   mailbox, coll, processed, sw, conn>>

\* join_all resolved; run_worker returns.  The go signal has woken the
\* producer actor before join_all was first polled, and the current_thread
\* runtime polls the tasks that are awake before it polls run_worker again:
\* the actor has passed its `ready.await` by then.
WorkerJoin(w) ==
    /\ wk[w].pc = "join"
    /\ join_all(w)
    /\ prod[w].pc # "wait"
    /\ wk' = [wk EXCEPT ![w].pc = "finished"]
    /\ UNCHANGED <<cfg, runs, should_stop, orch, waiter, cfg_sender, slot, prod, queue,
                   mailbox, coll, processed, sw, conn>>

\* drop(guard) in the thread of spawn_worker
WorkerDropGuard(w) ==
    /\ wk[w].pc = "finished"
    /\ wk' = [wk EXCEPT ![w].pc = "exited"]
    /\ UNCHANGED <<cfg, runs, should_stop, orch, waiter, cfg_sender, slot, prod, queue,
                   mailbox, coll, processed, sw, conn>>

\* The thread's closure ends: the runtime and the tasks left in it are dropped.
WorkerDropRuntime(w) ==
    /\ wk[w].pc = "exited"
    /\ wk' = [wk EXCEPT ![w].pc = "gone"]
    /\ slot' = [slot EXCEPT ![w] =
                  [k \in SlotIds |->
                     IF slot[w][k].pc \in {"top", "recv", "req", "aborted"}
                     THEN drop_http_stream(slot[w][k])
                     ELSE slot[w][k]]]
    /\ UNCHANGED <<cfg, runs, should_stop, orch, waiter, cfg_sender, prod, queue,
                   mailbox, coll, processed, sw, conn>>

\* ---------------------------------------------------------- producer actor
\* the actor not awaiting the go signal: it starts as soon as it is polled
ready_unawaited(w) == Running(w)

\* `ready.await` of the actor resolves: run_worker has sent the go signal and
\* awaits join_all, so that the actor is polled
ready_signal(w) == wk[w].pc = "join"

\* The actor's `ready.await` resolves and producer.ready() is called.
ProducerReady(w) ==
    /\ ready_signal(w)
    /\ prod[w].pc = "wait"
    /\ prod' = [prod EXCEPT ![w].pc = "create", ![w].ready_calls = @ + 1]
    /\ UNCHANGED <<cfg, runs, should_stop, orch, waiter, cfg_sender, wk, slot, queue,
                   mailbox, coll, processed, sw, conn>>

\* producer.create_batch().await and the match on its result
ProducerCreate(w) ==
    /\ Running(w)
    /\ prod[w].pc = "create"
    /\ \E r \in create_batch(prod[w]), base \in Bases :
         LET n == IF r.kind = "batch" /\ cfg.track THEN prod[w].emitted + 1 ELSE 0
         IN prod' = [prod EXCEPT
                       ![w].pc = IF r.kind = "batch" THEN "send" ELSE "closed",
                       ![w].pending =
                           IF r.kind = "batch"
                           THEN [tag |-> r.batch.tag, len |-> r.batch.len,
                                 no |-> n, key |-> first_key(WorkerIdOf(w), base)]
                           ELSE NoBatch,
                       ![w].script = r.script,
                       ![w].budget = r.budget,
                       ![w].emitted = IF n > 0 THEN n ELSE @]
    /\ UNCHANGED <<cfg, runs, should_stop, orch, waiter, cfg_sender, wk, slot, queue,
                   mailbox, coll, processed, sw, conn>>

\* tx.send_async(batch).await resolves: there is room in the channel
ProducerSend(w) ==
    /\ Running(w)
    /\ prod[w].pc = "send"
    /\ Len(queue[w]) < buffer_size(w)
    /\ queue' = [queue EXCEPT ![w] = Append(@, prod[w].pending)]
    /\ prod' = [prod EXCEPT ![w].pc = "create", ![w].pending = NoBatch]
    /\ UNCHANGED <<cfg, runs, should_stop, orch, waiter, cfg_sender, wk, slot, mailbox,
                   coll, processed, sw, conn>>

\* --------------------------------------------------------------- slot task
\* The first poll of a slot task.
SlotLoopTop(w, k) ==
    /\ Running(w)
    /\ slot[w][k].pc = "top"
    /\ LET r == loop_top(slot[w][k], should_stop, <<w, k>>)
       IN /\ slot' = [slot EXCEPT ![w][k] = r.sl]
          /\ mailbox' = mailbox \o r.out
    /\ UNCHANGED <<cfg, runs, should_stop, orch, waiter, cfg_sender, wk, prod, queue,
                   coll, processed, sw, conn>>

\* a channel that hands a batch to a receiver and keeps it for the next one
after_recv_broadcast(q) == q

\* The channel after recv_async has resolved with its oldest batch: the
\* batch is taken out, for the one receiver that got it.
after_recv(q) == Tail(q)

\* One poll of the slot task when recv_async has resolved with `batch` after
\* `wait` seconds, the flag reading `flag`: execute_next_batch up to the first
\* request, or up to the end of the task when the batch is not executed.
receive(sl, batch, wait, flag, id) ==
    LET r == receive_batch(sl, batch, wait, id)
        stop == flag \/ r.abort
        n == resume(r.sl, r.out, stop, id)
    IN [sl |-> n.sl, out |-> n.out, flag |-> stop]

\* producer.recv_async() resolves with a batch
SlotRecv(w, k) ==
    /\ Running(w)
    /\ slot[w][k].pc = "recv"
    /\ queue[w] # <<>>
    /\ \E wait \in Waits :
         LET n == receive(slot[w][k], Head(queue[w]), wait, should_stop, <<w, k>>)
         IN /\ slot' = [slot EXCEPT ![w][k] =
                           track(slot[w][k], n.sl, <<Head(queue[w])>>, should_stop)]
            /\ mailbox' = mailbox \o n.out
            /\ should_stop' = n.flag
    /\ queue' = [queue EXCEPT ![w] = after_recv(@)]
    /\ UNCHANGED <<cfg, runs, orch, waiter, cfg_sender, wk, prod, coll, processed, sw, conn>>

\* The slot after recv_async has been awaited for `wait` seconds and failed:
\* the time since last_sent_sample has grown by as much.
awaited(sl, wait) == [sl EXCEPT !.elapsed = @ + wait]

\* a receive that fails as soon as the channel is empty
disconnected_when_empty(w) == TRUE

\* Every sender of the channel is dropped: the actor's task, which owns the
\* only one, has ended.
disconnected(w) == prod[w].pc = "closed"

\* producer.recv_async() fails: the channel is closed and drained
SlotRecvClosed(w, k) ==
    /\ Running(w)
    /\ slot[w][k].pc = "recv"
    /\ queue[w] = <<>>
    /\ disconnected(w)
    /\ \E wait \in Waits :
         LET r == channel_closed(awaited(slot[w][k], wait), <<w, k>>)
         IN /\ slot' = [slot EXCEPT ![w][k] = r.sl]
            /\ mailbox' = mailbox \o r.out
    /\ UNCHANGED <<cfg, runs, should_stop, orch, waiter, cfg_sender, wk, prod, queue,
                   coll, processed, sw, conn>>

\* the flag set on Ok(false) only, an Err(e) of send() being dropped
set_abort_unless_error(flag, result) == flag \/ result = "stop"

\* The flag after the match on the result of send() in execute_batch:
\* Ok(false) and Err(e) both call set_abort() and return.
set_abort_after(flag, result) == flag \/ result # "continue"

\* One poll of the slot task when execute_req has returned `outcome` after
\* dur seconds, the flag reading `flag`: the rest of send(), the match on its
\* result, and what follows up to the next await or the end of the task.
respond(sl, outcome, dur, flag, id) ==
    LET r == send_end(sl, outcome, dur, id)
        stop == set_abort_after(flag, r.result)
        n == resume(after_send(r), r.out, stop, id)
    IN [sl |-> n.sl, out |-> n.out, flag |-> stop]

\* conn.execute_req(request).await resolves; the rest of send() and the step
\* of execute_batch that follows it
SlotResponse(w, k) ==
    /\ Running(w)
    /\ slot[w][k].pc = "req"
    /\ \E outcome \in cfg.outcomes, dur \in Latencies :
         LET n == respond(slot[w][k], outcome, dur, should_stop, <<w, k>>)
         IN /\ slot' = [slot EXCEPT ![w][k] =
                           track(validated(slot[w][k], outcome), n.sl, <<>>,
                                 should_stop)]
            /\ mailbox' = mailbox \o n.out
            /\ should_stop' = n.flag
    /\ UNCHANGED <<cfg, runs, orch, waiter, cfg_sender, wk, prod, queue, coll,
                   processed, sw, conn>>

\* ------------------------------------------------------------------- Next
Next ==
    \/ Run
    \/ \E r \in RunIds : RunComplete(r)
    \/ SetNumWorkers
    \/ SetSampleWindow
    \/ SetValidator
    \/ SetConnectionRetryMax
    \/ SetProducerWaitWarningThreshold
    \/ Shutdown
    \/ ConsumeCollector
    \/ CollectorJoined
    \/ CollectorProcess
    \/ CollectorExit
    \/ \E w \in WorkerIds :
         \/ WorkerConnect(w)
         \/ WorkerReady(w)
         \/ WorkerJoin(w)
         \/ WorkerDropGuard(w)
         \/ WorkerDropRuntime(w)
         \/ ProducerReady(w)
         \/ ProducerCreate(w)
         \/ ProducerSend(w)
         \/ \E k \in SlotIds :
              \/ SlotLoopTop(w, k)
              \/ SlotRecv(w, k)
              \/ SlotRecvClosed(w, k)
              \/ SlotResponse(w, k)

Spec == Init /\ [][Next]_vars

\* A single slot under every outcome, and the tag-switch scenario
SpecSlot == InitSlot /\ [][Next]_vars

SpecTagSwitch == InitTagSwitch /\ [][Next]_vars

SpecRerun == InitRerun /\ [][Next]_vars

SpecReconfigure == InitReconfigure /\ [][Next]_vars

SpecBatches == InitBatches /\ [][Next]_vars

SpecFill == InitFill /\ [][Next]_vars

SpecValidation == InitValidation /\ [][Next]_vars

SpecMerge == InitMerge /\ [][Next]_vars

SpecErrors == InitErrors /\ [][Next]_vars

SpecTags == InitTags /\ [][Next]_vars

SpecKeys == InitKeys /\ [][Next]_vars

\* The engine with a collector whose process_sample may panic.
NextCrash == Next \/ CollectorPanic

SpecCrash == InitCrash /\ [][NextCrash]_vars

\* One iteration of the loop of spawn_workers.
SpawnStep ==
    /\ sw.worker_id < sw.num_workers
    /\ sw' = spawn_loop_body(sw)
    /\ UNCHANGED <<cfg, runs, should_stop, orch, waiter, cfg_sender, wk, slot, prod,
                   queue, mailbox, coll, processed, conn>>

NextPartition == SpawnStep

SpecPartition == InitPartition /\ [][NextPartition]_vars

\* Scheduling: every thread runs, and the current_thread runtime of a worker
\* polls every task that is ready; the caller of the orchestrator is free.
WorkerStep(w) ==
    \/ WorkerConnect(w)
    \/ WorkerReady(w)
    \/ WorkerJoin(w)
    \/ WorkerDropGuard(w)
    \/ WorkerDropRuntime(w)

ProducerStep(w) == ProducerReady(w) \/ ProducerCreate(w) \/ ProducerSend(w)

SlotStep(w, k) ==
    \/ SlotLoopTop(w, k)
    \/ SlotRecv(w, k)
    \/ SlotRecvClosed(w, k)
    \/ SlotResponse(w, k)

Fairness ==
    /\ \A r \in RunIds : WF_vars(RunComplete(r))
    /\ WF_vars(CollectorProcess)
    /\ WF_vars(CollectorExit)
    /\ \A w \in WorkerIds :
         /\ WF_vars(WorkerStep(w))
         /\ WF_vars(ProducerStep(w))
         /\ \A k \in SlotIds : WF_vars(SlotStep(w, k))

FairSpec == Init /\ [][Next]_vars /\ Fairness

FairSpecDrain == InitDrain /\ [][Next]_vars /\ Fairness

\* ================================================================== claims
\* The identities <<worker, slot, n>> of the samples the slots have submitted.
SubmittedIds ==
    UNION {{<<p[1], p[2], n>> : n \in 1..slot[p[1]][p[2]].nsub} :
             p \in WorkerIds \X SlotIds}

\* How many samples of a sequence carry the identity id.
SeqCount(id, samples) == Cardinality({i \in 1..Len(samples) : samples[i].sid = id})

\* The last sample slot k of worker w has submitted.
LastSample(w, k) ==
    CHOOSE s \in {Delivered[i] : i \in 1..Len(Delivered)} :
        s.sid = <<w, k, slot[w][k].nsub>>

\* C1 (Spec): the future of run() has completed only when every worker of the
\* run has finished run_worker and dropped its guard; none of its slot tasks
\* is running then.
C1_RunWaitsForWorkers ==
    waiter[1] = "done" =>
        \A w \in Workers :
            /\ wk[w].pc \in {"exited", "gone"}
            /\ \A k \in SlotIds : slot[w][k].pc \in {"none", "done", "aborted"}

C1_Witness ==
    /\ waiter[1] = "done"
    /\ cfg.num_workers = 2
    /\ \A w \in Workers : wk[w].concurrency >= 1 /\ slot[w][0].nsub >= 1
    /\ \E i \in 1..Len(Delivered) : Delivered[i].total_successful_requests >= 1

\* C2 (FairSpec): once the producer of every worker has returned End or an
\* error, every slot task leaves its loop and submits its final sample, every
\* worker exits, and the future of run() completes.
ProducersClosed == runs >= 1 /\ \A w \in Workers : prod[w].pc = "closed"

GracefulEnd ==
    /\ waiter[1] = "done"
    /\ \A w \in Workers :
         /\ wk[w].pc \in {"exited", "gone"}
         /\ \A k \in SlotsOf(w) : slot[w][k].pc = "done" /\ slot[w][k].nsub >= 1

C2_Termination == ProducersClosed ~> GracefulEnd

C2_Witness ==
    /\ ProducersClosed
    /\ GracefulEnd
    /\ ~should_stop
    /\ cfg.num_workers = 2
    /\ \A w \in Workers : wk[w].concurrency >= 1
    /\ \E i \in 1..Len(Delivered) : Delivered[i].total_successful_requests >= 1

\* C3 (Spec): every sample a slot has submitted is in the mailbox or has been
\* handed to process_sample, once in all: none is lost, none is handed over
\* twice, and the collector actor leaves none behind when it exits.
C3_ExactlyOnce ==
    /\ \A id \in SubmittedIds : SeqCount(id, processed) + SeqCount(id, mailbox) = 1
    /\ Len(processed) + Len(mailbox) = Cardinality(SubmittedIds)
    /\ coll = "exited" => mailbox = <<>>

C3_Witness ==
    /\ coll = "exited"
    /\ Len(processed) >= 2
    /\ \E i, j \in 1..Len(processed) :
         <<processed[i].sid[1], processed[i].sid[2]>>
             # <<processed[j].sid[1], processed[j].sid[2]>>

\* C4 (Spec): consume_collector() has returned only when every worker has
\* finished and every submitted sample has been processed; the collector
\* actor has exited only when no worker and no slot holds a mailbox sender.
C4_ConsumeWaits ==
    /\ orch = "consumed" =>
         /\ \A w \in WorkerIds : wk[w].pc \notin {"run", "join"}
         /\ mailbox = <<>>
         /\ Len(processed) = Cardinality(SubmittedIds)
         /\ \A id \in SubmittedIds : SeqCount(id, processed) = 1
    /\ coll = "exited" =>
         \A w \in WorkerIds :
            /\ ~WorkerHoldsMailbox(w)
            /\ \A k \in SlotIds : ~SlotHoldsMailbox(w, k)

C4_Witness ==
    /\ orch = "consumed"
    /\ cfg.num_workers = 2
    /\ \E i, j \in 1..Len(processed) : processed[i].sid[1] # processed[j].sid[1]

\* C5 (SpecPartition): worker i is handed floor(c / W) slots, plus one iff
\* i < c mod W; the workers' concurrencies sum to c and any two of them
\* differ by at most 1.
C5_Partition ==
    /\ \A i \in 1..Len(sw.assigned) :
         sw.assigned[i] = (sw.concurrency \div sw.num_workers)
                          + (IF i - 1 < sw.concurrency % sw.num_workers THEN 1 ELSE 0)
    /\ sw.worker_id = sw.num_workers =>
         /\ Len(sw.assigned) = sw.num_workers
         /\ SumSeq(sw.assigned) = sw.concurrency
         /\ \A i, j \in 1..Len(sw.assigned) : sw.assigned[i] - sw.assigned[j] <= 1

C5_Witness ==
    /\ sw.worker_id = sw.num_workers
    /\ sw.num_workers >= 3
    /\ sw.concurrency % sw.num_workers >= 2
    /\ sw.concurrency > sw.num_workers

\* C6 (SpecSlot): every sample delivered to the collector has as many
\* latencies, read rates and write rates as successful requests.
C6_SeriesLengths ==
    \A i \in 1..Len(Delivered) :
        /\ Len(Delivered[i].latency) = Delivered[i].total_successful_requests
        /\ Len(Delivered[i].read_transfer) = Delivered[i].total_successful_requests
        /\ Len(Delivered[i].write_transfer) = Delivered[i].total_successful_requests

C6_Witness ==
    \E i \in 1..Len(processed) :
        /\ processed[i].total_successful_requests >= 2
        /\ Len(processed[i].latency) >= 2

\* C7 (SpecSlot): in every sample delivered to the collector, total_requests
\* is at least total_successful_requests plus the number of recorded errors.
C7_RequestsCoverOutcomes ==
    \A i \in 1..Len(Delivered) :
        Delivered[i].total_requests >=
            Delivered[i].total_successful_requests + Len(Delivered[i].errors)

C7_Witness ==
    \E i \in 1..Len(Delivered) :
        /\ Delivered[i].total_successful_requests >= 1
        /\ Len(Delivered[i].errors) >= 1
        /\ Delivered[i].total_requests >= 2

\* The tag-switch scenario has run to its end within one window: the slot has
\* left its loop, no window closed, and the collector has processed the
\* samples of all the requests, every one of them successful.
ScenarioDone ==
    /\ slot[0][0].pc = "done"
    /\ slot[0][0].nclose = 0
    /\ mailbox = <<>>
    /\ SumSeq([i \in 1..Len(processed) |-> processed[i].total_successful_requests])
         = 2 * ScenarioLen

\* C8 as stated (SpecTagSwitch): the scenario delivers exactly two samples,
\* tag 1 with 5 requests and tag 2 with 5 requests.
C8_TwoSamples ==
    ScenarioDone =>
        /\ Len(processed) = 2
        /\ processed[1].tag = 1 /\ processed[1].total_successful_requests = ScenarioLen
        /\ processed[2].tag = 2 /\ processed[2].total_successful_requests = ScenarioLen

\* What the scenario of C8 delivers: exactly three samples, the
\* slot's initial sample, empty and with tag 0, submitted at the first tag
\* change, then tag 1 with 5 requests and tag 2 with 5 requests.
C8_ThreeSamples ==
    ScenarioDone =>
        /\ Len(processed) = 3
        /\ processed[1].tag = 0 /\ processed[1].total_requests = 0
        /\ processed[2].tag = 1 /\ processed[2].total_requests = ScenarioLen
        /\ processed[2].total_successful_requests = ScenarioLen
        /\ processed[3].tag = 2 /\ processed[3].total_requests = ScenarioLen
        /\ processed[3].total_successful_requests = ScenarioLen

C8_Witness ==
    /\ ScenarioDone
    /\ Len(processed) = 3
    /\ processed[1].total_requests = 0
    /\ processed[3].tag = 2

\* C9 as stated (SpecSlot): a slot that finishes before one sample window has
\* elapsed has emitted exactly one sample, at exit, with tag 0.
C9_OneSampleTagZero ==
    \A w \in WorkerIds : \A k \in SlotIds :
        slot[w][k].pc = "done" /\ slot[w][k].nclose = 0 =>
            /\ slot[w][k].nsub = 1
            /\ LastSample(w, k).tag = 0

\* C9 (SpecSlot): a slot that finishes before one sample window has elapsed
\* has emitted one sample for each tag change it met and exactly one more, at
\* exit; with no tag change that is exactly one sample, with tag 0.
C9_OneSampleAtExit ==
    \A w \in WorkerIds : \A k \in SlotIds :
        slot[w][k].pc = "done" /\ slot[w][k].nclose = 0 =>
            /\ slot[w][k].nsub = slot[w][k].ntag + 1
            /\ slot[w][k].ntag = 0 => LastSample(w, k).tag = 0

C9_Witness ==
    /\ slot[0][0].pc = "done"
    /\ slot[0][0].nclose = 0
    /\ slot[0][0].ntag = 0
    /\ slot[0][0].nsub = 1
    /\ LastSample(0, 0).total_requests >= 2

\* C10 (SpecSlot): in every sample handed to process_sample the latencies,
\* the read rates and the write rates are in non-decreasing order.
C10_SortedSeries ==
    \A i \in 1..Len(processed) :
        /\ IsSorted(processed[i].latency)
        /\ IsSorted(processed[i].read_transfer)
        /\ IsSorted(processed[i].write_transfer)

C10_Witness ==
    \E i \in 1..Len(processed) :
        /\ Len(processed[i].latency) >= 2
        /\ processed[i].latency[1] < processed[i].latency[2]
        /\ processed[i].read_transfer[1] < processed[i].read_transfer[2]

\* C11 (SpecRerun): the shutdown flag is monotonic: no step of the
\* orchestrator, of a worker or of a slot, a later run() included, takes it
\* from true back to false.
C11_FlagMonotonic == [][should_stop => should_stop']_vars

C11_Witness ==
    /\ should_stop
    /\ runs = 2
    /\ waiter[1] = "done"
    /\ \E i \in 1..Len(Delivered) :
         Delivered[i].run = 1 /\ Delivered[i].errors = <<"ConnectionAborted">>
    /\ \E i \in 1..Len(Delivered) : Delivered[i].run = 2

\* the flag set in the first run, and the second run, called while the first
\* was under way, over: its slot has left the loop and sent nothing
C11_WitnessOverlap ==
    /\ should_stop
    /\ runs = 2
    /\ waiter[1] = "pending" /\ wk[0].pc = "join"
    /\ waiter[2] = "done"
    /\ prod[MaxWorkers].emitted = 1
    /\ slot[MaxWorkers][0].got = <<>>
    /\ \E i \in 1..Len(Delivered) :
         Delivered[i].run = 2 /\ Delivered[i].total_requests = 0

\* C12 (FairSpecDrain): once the shutdown flag is set during a run, every slot
\* task leaves its loop and ends (or was cancelled at a failed connection)
\* and the future of run() completes, also when the producer never returns
\* End; no slot stays in recv_async for ever.
SlotsOver == \A w \in WorkerIds : \A k \in SlotIds : slot[w][k].pc \notin {"top", "recv", "req"}

C12_ShutdownDrains == (should_stop /\ waiter[1] = "pending") ~> (SlotsOver /\ waiter[1] = "done")

C12_Witness ==
    /\ should_stop
    /\ waiter[1] = "done"
    /\ cfg.endless
    /\ wk[0].concurrency = 2
    /\ prod[0].pc \in {"create", "send"}
    /\ \A k \in SlotsOf(0) : slot[0][k].pc = "done" /\ ~slot[0][k].is_first_batch

ConnectFailed(w) == wk[w].pc \in {"finished", "exited", "gone"}
                    /\ wk[w].connected < wk[w].concurrency

Joined(w) == wk[w].pc \in {"finished", "exited", "gone"}
             /\ wk[w].connected = wk[w].concurrency

\* C14 as stated (Spec): producer.ready() is called exactly once per worker
\* per run, unless a slot connection of the worker failed.
C14_ReadyExactlyOnce ==
    \A w \in Workers : Joined(w) => prod[w].ready_calls = 1

\* C14 (Spec): producer.ready() is called at most once per worker per run and
\* only after every slot connection of the worker is established; create_batch
\* is never called before it; when run_worker has returned, it has been called
\* exactly once by a worker that has a slot and whose connections were all
\* established, and not at all by a worker one of whose slot connections
\* failed and by a worker that has no slot.
C14_ReadyAtMostOnce ==
    \A w \in WorkerIds :
        /\ prod[w].ready_calls <= 1
        /\ prod[w].ready_calls = 1 =>
              wk[w].connected = wk[w].concurrency /\ wk[w].pc \notin {"idle", "run"}
        /\ prod[w].pc \in {"create", "send", "closed"} => prod[w].ready_calls = 1
        /\ prod[w].ready_calls = 0 => prod[w].pending = NoBatch /\ queue[w] = <<>>
        /\ ConnectFailed(w) => prod[w].ready_calls = 0
        /\ Joined(w) /\ wk[w].concurrency = 0 => prod[w].ready_calls = 0
        /\ Joined(w) /\ wk[w].concurrency > 0 => prod[w].ready_calls = 1

C14_Witness ==
    /\ waiter[1] = "done"
    /\ cfg.num_workers = 2
    /\ Joined(0) /\ wk[0].concurrency = 1
    /\ prod[0].ready_calls = 1 /\ prod[0].pc = "closed"
    /\ \E i \in 1..Len(Delivered) : Delivered[i].total_successful_requests = 1
    /\ Joined(1) /\ wk[1].concurrency = 0
    /\ prod[1].ready_calls = 0

\* shutdown() before run(): the slot ends at its first check, and the
\* producer has been readied all the same
C14_WitnessShutdown ==
    /\ should_stop
    /\ Joined(0) /\ wk[0].concurrency = 1
    /\ slot[0][0].got = <<>> /\ slot[0][0].nsub = 1
    /\ prod[0].ready_calls = 1
    /\ prod[0].emitted = 0

\* The batches of worker w's producer that slot k has received, and where
\* batch number n of worker w is.
GotNos(w, k) == {slot[w][k].got[i].no : i \in 1..Len(slot[w][k].got)}

Holders(w, n) ==
    UNION {{<<"slot", k, i>> : i \in {y \in DOMAIN slot[w][k].got :
                                        slot[w][k].got[y].no = n}} : k \in SlotIds}
    \cup {<<"queue", i>> : i \in {y \in DOMAIN queue[w] : queue[w][y].no = n}}
    \cup (IF prod[w].pc = "send" /\ prod[w].pending.no = n THEN {<<"pending">>} ELSE {})

\* C15 (SpecBatches): every batch a producer has emitted is in one place:
\* held by the actor, in the channel, or received by one slot, once; a slot
\* receives batches in emission order and sends the requests of a batch one
\* after the other, all of them before it receives the next batch; and a
\* worker that returns from join_all with the flag not set has had every
\* emitted batch received and wholly sent by one slot.
C15_BatchesOnceInOrder ==
    \A w \in WorkerIds :
        /\ \A n \in 1..prod[w].emitted : Cardinality(Holders(w, n)) = 1
        /\ \A i \in 1..Len(queue[w]) - 1 : queue[w][i].no < queue[w][i + 1].no
        /\ \A k \in SlotIds :
              LET g == slot[w][k].got
              IN /\ \A i \in 1..Len(g) - 1 :
                       g[i].no < g[i + 1].no /\ g[i].sent = g[i].len
                 /\ \A i \in 1..Len(g) : g[i].sent <= g[i].len
                 /\ Len(g) > 0 /\ slot[w][k].pc = "req" =>
                       g[Len(g)].sent = g[Len(g)].len - slot[w][k].left + 1
        /\ Joined(w) /\ ~should_stop =>
              /\ wk[w].concurrency > 0 => prod[w].pc = "closed"
              /\ \A n \in 1..prod[w].emitted :
                    \E k \in SlotsOf(w) : \E i \in 1..Len(slot[w][k].got) :
                        slot[w][k].got[i].no = n
                        /\ slot[w][k].got[i].sent = slot[w][k].got[i].len

C15_Witness ==
    /\ Joined(0)
    /\ ~should_stop
    /\ wk[0].concurrency = 2
    /\ prod[0].emitted = 3
    /\ GotNos(0, 0) = {1, 3}
    /\ GotNos(0, 1) = {2}
    /\ slot[0][1].got[1].len = 2

\* C16 (SpecFill): the channel between a worker's producer actor and its
\* slots never holds more than 4 times the worker's slot count; the actor
\* holds at most the one batch it is sending, and the batches in the channel
\* and in the actor's hand are the latest emitted, in order, none missing:
\* nothing is dropped or overwritten while the actor waits for room.
C16_BackPressure ==
    \A w \in WorkerIds :
        LET held == IF prod[w].pc = "send" THEN <<prod[w].pending>> ELSE <<>>
            waiting == queue[w] \o held
        IN /\ Len(queue[w]) <= 4 * wk[w].concurrency
           /\ \A i \in 1..Len(waiting) :
                 waiting[i].no = prod[w].emitted - Len(waiting) + i
           /\ \A n \in 1..prod[w].emitted : Cardinality(Holders(w, n)) = 1

C16_Witness ==
    /\ Len(queue[0]) = 4
    /\ wk[0].concurrency = 1
    /\ prod[0].pc = "send"
    /\ prod[0].pending.no = 6
    /\ slot[0][0].pc = "req"
    /\ GotNos(0, 0) = {1}

\* The sample a request of slot sl is recorded in, after send() has returned
\* with result r: the one just submitted if the window closed, else the
\* current one.
RecordedIn(r) == IF r.out # <<>> THEN r.out[1] ELSE r.sl.sample

\* C17 (SpecValidation): when the validator refuses the response of the request
\* a slot awaits, the error is appended to the errors of the current sample,
\* in which the request is counted; successes, latencies and transfer rates
\* stay as they are; send() returns Ok(true), the flag is left alone and the
\* slot sends the next request of the batch, if there is one.
C17_ValidatorRejection ==
    \A w \in WorkerIds : \A k \in SlotIds :
        slot[w][k].pc = "req" =>
            \A dur \in Latencies :
                LET sl == slot[w][k]
                    r == send_end(sl, "rejected", dur, <<w, k>>)
                    rec == RecordedIn(r)
                    n == resume(after_send(r), r.out, should_stop, <<w, k>>).sl
                IN /\ rec.errors = Append(sl.sample.errors, "InvalidStatus")
                   /\ rec.total_requests = sl.sample.total_requests
                   /\ rec.total_requests >=
                         1 + sl.sample.total_successful_requests + Len(sl.sample.errors)
                   /\ rec.total_successful_requests = sl.sample.total_successful_requests
                   /\ rec.latency = sl.sample.latency
                   /\ rec.read_transfer = sl.sample.read_transfer
                   /\ rec.write_transfer = sl.sample.write_transfer
                   /\ r.result = "continue"
                   /\ sl.left > 1 => n.pc = "req" /\ n.left = sl.left - 1
                   /\ sl.left = 1 /\ ~should_stop => n.pc = "recv"

C17_Witness ==
    /\ ~should_stop
    /\ slot[0][0].pc = "req"
    /\ slot[0][0].left = 1
    /\ slot[0][0].got[1].len = 2
    /\ slot[0][0].sample.errors = <<"InvalidStatus">>
    /\ slot[0][0].sample.total_requests = 2
    /\ slot[0][0].sample.total_successful_requests = 0

\* What holds once a slot connection of worker w has failed: the flag is set,
\* no slot task of w runs (those spawned were cancelled, or had ended at the
\* flag), its producer was never readied, and every sample it has delivered
\* is empty.
StartupFailureHandled(w) ==
    /\ should_stop
    /\ \A k \in SlotIds : slot[w][k].pc \in {"none", "done", "aborted"}
    /\ \A k \in SlotIds : k >= wk[w].connected => slot[w][k].pc = "none"
    /\ prod[w].pc = "wait" /\ prod[w].ready_calls = 0 /\ queue[w] = <<>>
    /\ \A i \in 1..Len(Delivered) :
         Delivered[i].worker_id = w => Delivered[i].total_requests = 0

\* C18 (FairSpec): a worker one of whose slot connections failed has set the
\* flag, has had its spawned slot tasks cancelled, sends no request and
\* delivers no sample that counts one; and after such a failure the future
\* of run() completes.
C18_StartupFailure ==
    /\ [](\A w \in Workers : ConnectFailed(w) => StartupFailureHandled(w))
    /\ ((\E w \in Workers : ConnectFailed(w)) ~> waiter[1] = "done")

C18_Witness ==
    /\ waiter[1] = "done"
    /\ cfg.num_workers = 1
    /\ ConnectFailed(0)
    /\ wk[0].connected = 1
    /\ slot[0][0].pc = "aborted"
    /\ orch = "ran"

\* A step in which slot k of worker w leaves its loop and ends.
SlotEnds(w, k) == slot[w][k].pc \in {"top", "recv", "req"} /\ slot'[w][k].pc = "done"

\* C19 as stated (Spec): with the flag not set, the future of run() has
\* completed only when the producer of every worker has returned End or failed.
C19_RunOutlastsProducers ==
    waiter[1] = "done" /\ ~should_stop => \A w \in Workers : prod[w].pc = "closed"

\* C19 (Spec): a slot that ends while the flag is not set does so on the
\* closed and drained channel of its producer; hence, with the flag not set,
\* the future of run() has completed only when the producer of every worker
\* that has a slot has returned End or failed and its channel is empty.
C19_LoopEndsOnClosedChannel ==
    /\ [][\A w \in WorkerIds : \A k \in SlotIds :
            SlotEnds(w, k) /\ ~should_stop' =>
                prod[w].pc = "closed" /\ queue[w] = <<>> /\ slot[w][k].pc = "recv"]_vars
    /\ [](waiter[1] = "done" /\ ~should_stop =>
            \A w \in Workers :
                wk[w].concurrency > 0 => prod[w].pc = "closed" /\ queue[w] = <<>>)

C19_Witness ==
    /\ waiter[1] = "done"
    /\ ~should_stop
    /\ cfg.num_workers = 1
    /\ wk[0].concurrency = 2
    /\ prod[0].pc = "closed"
    /\ \A k \in SlotsOf(0) : slot[0][k].pc = "done"
    /\ Len(Delivered) = 2
    /\ \E i \in 1..Len(Delivered) : Delivered[i].total_successful_requests = 1

\* The samples thread w has delivered, and the requests they count.
RunSamples(w) == {i \in 1..Len(Delivered) : Delivered[i].sid[1] = w}

RECURSIVE RequestsIn(_)
RequestsIn(is) ==
    IF is = {} THEN 0
    ELSE LET i == CHOOSE x \in is : TRUE
         IN Delivered[i].total_requests + RequestsIn(is \ {i})

\* Every batch the producer of thread w has emitted was received by a slot
\* and wholly sent.
AllExecuted(w) ==
    \A n \in 1..prod[w].emitted :
        \E k \in SlotsOf(w) : \E i \in 1..Len(slot[w][k].got) :
            slot[w][k].got[i].no = n /\ slot[w][k].got[i].sent = slot[w][k].got[i].len

\* a thread of a run() called after the previous run had completed, that
\* run being over
RerunOver(w) == w \in Workers /\ wk[w].rerun /\ waiter[RunOf(w)] = "done"

\* C20 as stated (SpecReconfigure): a run() called after the previous run has
\* completed executes every batch its producers emit.
C20_RerunExecutes == \A w \in WorkerIds : RerunOver(w) => AllExecuted(w)

\* C20, what the code does (SpecReconfigure): a run() called after the
\* previous run has completed, on a benchmark whose flag has not been set, and during which it is not set,
\* starts its producers anew, executes every batch they emit and delivers
\* samples that count every request of these batches; a run() called after
\* the flag was set by a slot that lost its connection sends no request.
C20_RerunWhileFlagUnset ==
    \A w \in WorkerIds :
        /\ RerunOver(w) /\ ~should_stop /\ wk[w].concurrency > 0 =>
              /\ prod[w].pc = "closed" /\ prod[w].ready_calls = 1
              /\ prod[w].emitted + prod[w].budget = cfg.budget
              /\ AllExecuted(w)
              /\ RequestsIn(RunSamples(w)) =
                    SumSeq([n \in 1..Len(slot[w][0].got) |-> slot[w][0].got[n].len])
        /\ (/\ w \in Workers /\ wk[w].rerun
            /\ \E i \in 1..Len(Delivered) :
                 Delivered[i].run < RunOf(w) /\ Delivered[i].errors # <<>>) =>
              /\ slot[w][0].got = <<>>
              /\ RequestsIn(RunSamples(w)) = 0

\* the second run, of two workers and with a window of one second, called
\* when the first, of one worker, had completed: both have sent a request
C20_WitnessUnset ==
    /\ runs = 2
    /\ RerunOver(MaxWorkers)
    /\ ~should_stop
    /\ wk[1].pc = "idle" /\ wk[MaxWorkers + 1].pc = "gone"
    /\ wk[MaxWorkers].config.sample_window = 1
    /\ wk[MaxWorkers].concurrency = 1
    /\ prod[MaxWorkers].emitted = 1
    /\ RequestsIn(RunSamples(MaxWorkers)) = 1
    /\ \E i \in 1..Len(Delivered) :
         Delivered[i].run = 1 /\ Delivered[i].total_successful_requests = 1

\* the first run has lost its connection and set the flag; the second run,
\* called when the first had completed, is over: its producer has emitted
\* its batch and its slot has left the loop without receiving it
C20_Witness ==
    /\ runs = 2
    /\ RerunOver(MaxWorkers)
    /\ should_stop
    /\ \E i \in 1..Len(Delivered) :
         Delivered[i].run = 1 /\ Delivered[i].errors = <<"ConnectionAborted">>
    /\ wk[MaxWorkers].concurrency = 1
    /\ prod[MaxWorkers].ready_calls = 1 /\ prod[MaxWorkers].emitted = 1
    /\ slot[MaxWorkers][0].pc = "done" /\ slot[MaxWorkers][0].got = <<>>
    /\ RequestsIn(RunSamples(MaxWorkers)) = 0

\* The entries of the SampleMerger of a collector that has added every sample
\* it was handed; the samples handed over that have a given key; and the sum
\* of a non-empty sequence of samples.
Merged == merge_samples(processed)

KeySamples(key) == SelectSeq(processed, LAMBDA s : SampleKey(s) = key)

RECURSIVE SumSamples(_)
SumSamples(samples) ==
    IF Len(samples) = 1 THEN samples[1]
    ELSE add_assign(SumSamples(SubSeq(samples, 1, Len(samples) - 1)),
                    samples[Len(samples)])

\* C21 as stated (SpecMerge): the merger has one entry per key of the samples
\* added, and the entry of a key is the sum of exactly the samples added with
\* that key, each counted once.
C21_MergerSums ==
    /\ DOMAIN Merged = {SampleKey(processed[i]) : i \in 1..Len(processed)}
    /\ \A key \in DOMAIN Merged : Merged[key] = SumSamples(KeySamples(key))

\* What add_sample does (SpecMerge): the entry of a key is the first sample
\* added with it, doubled once for every later sample with that key; the
\* later samples themselves are dropped.
RECURSIVE Doubled(_, _)
Doubled(sample, times) ==
    IF times = 0 THEN sample
    ELSE LET d == Doubled(sample, times - 1) IN add_assign(d, d)

C21_MergerDoubles ==
    /\ DOMAIN Merged = {SampleKey(processed[i]) : i \in 1..Len(processed)}
    /\ \A key \in DOMAIN Merged :
         Merged[key] = Doubled(KeySamples(key)[1], Len(KeySamples(key)) - 1)

C21_Witness ==
    \E key \in DOMAIN Merged :
        /\ Len(KeySamples(key)) = 2
        /\ KeySamples(key)[1].total_requests = 1
        /\ KeySamples(key)[2].total_requests = 0
        /\ Merged[key].total_requests = 2

\* The samples to add: those delivered so far, and an empty one (a new
\* sample that has recorded nothing).
Addends == {Delivered[i] : i \in 1..Len(Delivered)} \cup {new_sample(0, 0)}

Scalars(s) == <<s.total_duration, s.total_requests, s.total_successful_requests,
                s.total_latency_duration>>

Series(s) == <<s.latency, s.read_transfer, s.write_transfer, s.errors>>

\* The length and sum invariants of a sample.
WellFormed(s) ==
    /\ Len(s.latency) = s.total_successful_requests
    /\ Len(s.read_transfer) = s.total_successful_requests
    /\ Len(s.write_transfer) = s.total_successful_requests
    /\ s.total_requests >= s.total_successful_requests + Len(s.errors)
    /\ SumSeq(s.latency) = s.total_latency_duration

\* C22 (SpecSlot): for the samples a, b, c the engine delivers, the scalar
\* fields of a + b are the sums of a's and b's, so that + is commutative and
\* associative on them; the sequence fields of a + b are a's followed by
\* b's; a + empty is a; and a + b keeps the length and sum invariants.
C22_SampleAddition ==
    \A a, b \in Addends :
        LET ab == add_assign(a, b)
        IN /\ Scalars(ab) = [i \in 1..4 |-> Scalars(a)[i] + Scalars(b)[i]]
           /\ Scalars(ab) = Scalars(add_assign(b, a))
           /\ Series(ab) = [i \in 1..4 |-> Series(a)[i] \o Series(b)[i]]
           /\ ab.tag = a.tag /\ ab.worker_id = a.worker_id
           /\ add_assign(a, new_sample(b.tag, b.worker_id)) = a
           /\ WellFormed(a) /\ WellFormed(b) /\ WellFormed(ab)
           /\ \A c \in Addends :
                 add_assign(ab, c) = add_assign(a, add_assign(b, c))

C22_Witness ==
    \E a, b \in Addends :
        /\ a.total_successful_requests >= 1 /\ b.total_successful_requests >= 1
        /\ a.latency # b.latency
        /\ add_assign(a, b).latency # add_assign(b, a).latency
        /\ add_assign(a, b).total_latency_duration = 3

\* C23 (SpecSlot): in every sample emitted, and in the sample every slot is
\* filling, the latencies add up to total_latency_duration, whatever requests
\* were recorded and whatever samples were submitted before.
C23_LatencyTotal ==
    /\ \A i \in 1..Len(Delivered) :
          SumSeq(Delivered[i].latency) = Delivered[i].total_latency_duration
    /\ \A w \in Workers : \A k \in SlotsOf(w) :
          SumSeq(slot[w][k].sample.latency) = slot[w][k].sample.total_latency_duration

C23_Witness ==
    \E i \in 1..Len(Delivered) :
        /\ Len(Delivered[i].latency) = 2
        /\ Delivered[i].latency[1] # Delivered[i].latency[2]
        /\ Delivered[i].total_latency_duration = 3

RECURSIVE MaxSeq(_)
MaxSeq(s) == IF s = <<>> THEN 0
             ELSE LET m == MaxSeq(Tail(s)) IN IF Head(s) > m THEN Head(s) ELSE m

\* C24 (SpecSlot): every sample emitted with at least one successful request
\* has a total_duration no shorter than its longest latency: the requests of
\* a sample all started within the window its total_duration measures.
C24_DurationCoversLatency ==
    \A i \in 1..Len(Delivered) :
        Delivered[i].total_successful_requests > 0
            => Delivered[i].total_duration >= MaxSeq(Delivered[i].latency)

C24_Witness ==
    \E i \in 1..Len(Delivered) :
        /\ Delivered[i].sid[3] >= 2
        /\ Delivered[i].total_successful_requests > 0
        /\ MaxSeq(Delivered[i].latency) = MaxLatency
        /\ Delivered[i].total_duration = MaxLatency

\* C25 (SpecMerge): a sample names the worker that produced it, and two
\* samples emitted by different slots of one worker carry different
\* concurrency_id values, so that they never share a SampleMerger key.
C25_SlotsHaveOwnKeys ==
    \A i, j \in 1..Len(Delivered) :
        LET a == Delivered[i]
            b == Delivered[j]
        IN /\ a.worker_id = a.sid[1]
           /\ (a.sid[1] = b.sid[1] /\ a.sid[2] # b.sid[2])
                 => /\ a.concurrency_id # b.concurrency_id
                    /\ SampleKey(a) # SampleKey(b)

\* What run_worker does: the metadata is built once per worker and every
\* slot gets a clone of the one factory, so all the samples of a worker
\* carry the same metadata, whichever slot emitted them.
C25_WorkerWideMetadata ==
    \A i, j \in 1..Len(Delivered) :
        LET a == Delivered[i]
            b == Delivered[j]
        IN /\ a.worker_id = a.sid[1]
           /\ a.sid[1] = b.sid[1] => a.concurrency_id = b.concurrency_id

C25_Witness ==
    \E i, j \in 1..Len(Delivered) :
        /\ Delivered[i].sid[1] = Delivered[j].sid[1]
        /\ Delivered[i].sid[2] # Delivered[j].sid[2]
        /\ Delivered[i].total_requests > 0 /\ Delivered[j].total_requests > 0
        /\ SampleKey(Delivered[i]) = SampleKey(Delivered[j])

\* the slot task's future, and the connection it owns, are dropped
ConnectionDropped(w, k) ==
    \/ slot[w][k].pc = "done"
    \/ slot[w][k].pc = "aborted" /\ wk[w].pc = "gone"

\* C26 (Spec): a connection that is dropped, because its slot task has ended
\* or because the aborted task was dropped with its runtime, has had its
\* driver task aborted: a driver task still running belongs to a connection
\* that still exists, and there is no driver without a connection.
C26_DriverAbortedOnDrop ==
    \A w \in WorkerIds : \A k \in SlotIds :
        /\ ConnectionDropped(w, k) => slot[w][k].driver = "aborted"
        /\ slot[w][k].driver = "running" =>
              /\ slot[w][k].pc \in {"top", "recv", "req", "aborted"}
              /\ wk[w].pc # "gone"
        /\ slot[w][k].pc = "none" <=> slot[w][k].driver = "none"

\* a slot task aborted after a later connection failed, its connection
\* dropped with the runtime
C26_Witness ==
    \E w \in Workers : \E k \in SlotsOf(w) :
        /\ slot[w][k].pc = "aborted" /\ slot[w][k].driver = "aborted"
        /\ wk[w].pc = "gone"

\* a slot task that has ended while its worker is still running
C26_WitnessEnded ==
    \E w \in Workers : \E k \in SlotsOf(w) :
        /\ slot[w][k].pc = "done" /\ slot[w][k].driver = "aborted"
        /\ slot[w][k].nsub = 1 /\ wk[w].pc = "join"

\* C27 (SpecErrors): when execute_req fails with a body-write-aborted, closed
\* or connect error, whichever request of whichever batch it is, the slot
\* records ConnectionAborted in the current sample, the flag is set, the slot
\* sends no further request and ends, and that sample is the one sample it
\* submits from then on.  A sample holding ConnectionAborted holds it once,
\* as its last error, and is the last sample of a slot that has ended.
C27_ConnectionAborted ==
    \A w \in WorkerIds : \A k \in SlotIds :
        /\ slot[w][k].pc = "req" =>
              \A dur \in Latencies :
                  LET sl == slot[w][k]
                      n == respond(sl, "aborted", dur, should_stop, <<w, k>>)
                  IN /\ n.flag
                     /\ n.sl.pc = "done" /\ n.sl.left = 0
                     /\ n.sl.nsub = sl.nsub + 1
                     /\ n.sl.sample.total_requests = 0
                     /\ Len(n.out) = 1
                     /\ n.out[1].sid = <<w, k, sl.nsub + 1>>
                     /\ n.out[1].errors = Append(sl.sample.errors, "ConnectionAborted")
                     /\ n.out[1].total_requests = sl.sample.total_requests
                     /\ n.out[1].total_successful_requests =
                           sl.sample.total_successful_requests
        /\ \A e \in 1..Len(slot[w][k].sample.errors) :
              slot[w][k].sample.errors[e] # "ConnectionAborted"
        /\ \A i \in 1..Len(Delivered) :
              LET s == Delivered[i]
              IN \A e \in 1..Len(s.errors) :
                    (s.sid[1] = w /\ s.sid[2] = k /\ s.errors[e] = "ConnectionAborted")
                       => /\ e = Len(s.errors)
                          /\ should_stop
                          /\ slot[w][k].pc = "done"
                          /\ s.sid[3] = slot[w][k].nsub

\* the first request of a batch of two fails: the second is never sent, the
\* second batch is never executed, and one sample is submitted
C27_Witness ==
    /\ should_stop
    /\ slot[0][0].pc = "done" /\ slot[0][0].nsub = 1
    /\ Len(slot[0][0].got) = 1
    /\ slot[0][0].got[1].len = 2 /\ slot[0][0].got[1].sent = 1
    /\ Len(Delivered) = 1
    /\ Delivered[1].errors = <<"ConnectionAborted">>
    /\ Delivered[1].total_requests = 1

\* C28 (SpecErrors): when execute_req fails with an incomplete-message or
\* parse error the slot records InvalidBody, when it fails with a timeout it
\* records Timeout; either way nothing else of the sample changes, the flag
\* is left as it is, and the slot goes on with the next request of the batch
\* (or, with the batch over and the flag unset, awaits the next batch).
C28_InvalidBodyAndTimeout ==
    \A w \in WorkerIds : \A k \in SlotIds :
        slot[w][k].pc = "req" =>
            \A dur \in Latencies : \A outcome \in {"invalid", "timeout"} :
                LET sl == slot[w][k]
                    r == send_end(sl, outcome, dur, <<w, k>>)
                    n == respond(sl, outcome, dur, should_stop, <<w, k>>)
                    e == IF outcome = "invalid" THEN "InvalidBody" ELSE "Timeout"
                IN /\ r.sl.sample = record_error(sl.sample, e)
                   /\ r.result = "continue" /\ r.out = <<>>
                   /\ n.flag = should_stop
                   /\ sl.left > 1 =>
                         /\ n.sl.pc = "req" /\ n.sl.left = sl.left - 1
                         /\ n.sl.sample = record_total_request(record_error(sl.sample, e))
                         /\ n.out = <<>>
                   /\ sl.left = 1 /\ ~should_stop =>
                         /\ n.sl.pc = "recv"
                         /\ n.sl.sample = record_error(sl.sample, e)
                         /\ n.out = <<>>

\* both errors recorded in one sample by a slot that is still going, the
\* flag unset
C28_Witness ==
    /\ ~should_stop
    /\ slot[0][0].pc = "req" /\ slot[0][0].nsub = 0
    /\ slot[0][0].sample.errors = <<"InvalidBody", "Timeout">>
    /\ slot[0][0].sample.total_requests = 3

\* C29 (SpecErrors): a transport error of no recorded class comes out of
\* send() as an error: nothing is recorded for it, the flag is set, the slot
\* sends no further request and ends, and it still submits its final sample,
\* which counts the failed request.
C29_OtherErrorPropagated ==
    \A w \in WorkerIds : \A k \in SlotIds :
        slot[w][k].pc = "req" =>
            \A dur \in Latencies :
                LET sl == slot[w][k]
                    r == send_end(sl, "other", dur, <<w, k>>)
                    n == respond(sl, "other", dur, should_stop, <<w, k>>)
                IN /\ r.result = "error"
                   /\ r.sl.sample = sl.sample /\ r.out = <<>>
                   /\ n.flag
                   /\ n.sl.pc = "done" /\ n.sl.left = 0
                   /\ n.sl.sample.total_requests = 0
                   /\ n.sl.nsub = sl.nsub + 1
                   /\ Len(n.out) = 1
                   /\ n.out[1].sid = <<w, k, sl.nsub + 1>>
                   /\ n.out[1].errors = sl.sample.errors
                   /\ n.out[1].total_requests = sl.sample.total_requests
                   /\ n.out[1].latency = sl.sample.latency

\* the first request of a batch of two fails with such an error: the one
\* sample submitted counts a request that is neither a success nor an error
C29_Witness ==
    /\ should_stop
    /\ slot[0][0].pc = "done" /\ slot[0][0].nsub = 1
    /\ Len(slot[0][0].got) = 1
    /\ slot[0][0].got[1].len = 2 /\ slot[0][0].got[1].sent = 1
    /\ Len(Delivered) = 1
    /\ Delivered[1].errors = <<>>
    /\ Delivered[1].total_requests = 1
    /\ Delivered[1].total_successful_requests = 0

\* C30 (SpecCrash): with the collector's mailbox disconnected, a slot whose
\* submission fails at a tag change (the batch received carries another tag
\* than the current sample) or at a window close (the window has elapsed
\* when a response is in) sets the flag, sends no further request and ends;
\* a slot one of whose tag-change or window-close submissions has failed is
\* neither awaiting a batch nor a response, and the flag is set.
C30_SubmitFailureAborts ==
    \A w \in WorkerIds : \A k \in SlotIds :
        LET sl == slot[w][k]
        IN /\ (sl.pc = "recv" /\ queue[w] # <<>> /\ ~mailbox_connected
                  /\ Head(queue[w]).tag # sl.sample.tag) =>
                 \A wait \in Waits :
                     LET n == receive(sl, Head(queue[w]), wait, should_stop, <<w, k>>)
                     IN /\ n.flag
                        /\ n.sl.pc = "done" /\ n.sl.left = 0
                        /\ n.sl.sample.total_requests = 0
                        /\ n.sl.nsub = sl.nsub
                        /\ n.out = <<>>
           /\ (sl.pc = "req" /\ ~mailbox_connected) =>
                 \A dur \in Latencies : \A outcome \in {"ok", "rejected"} :
                     should_submit(sl.window, sl.elapsed + dur) =>
                         LET n == respond(sl, outcome, dur, should_stop, <<w, k>>)
                         IN /\ n.flag
                            /\ n.sl.pc = "done" /\ n.sl.left = 0
                            /\ n.sl.sample.total_requests = 0
                            /\ n.sl.nsub = sl.nsub
                            /\ n.out = <<>>
           /\ sl.ntag + sl.nclose > sl.nsub =>
                 /\ should_stop
                 /\ sl.pc \notin {"recv", "req"}

\* the second batch carries another tag than the first and the collector
\* has panicked: the batch is received and none of its requests is sent
C30_Witness ==
    /\ coll = "panicked" /\ should_stop
    /\ slot[0][0].pc = "done"
    /\ slot[0][0].ntag > slot[0][0].nsub
    /\ Len(slot[0][0].got) = 2
    /\ slot[0][0].got[1].sent = slot[0][0].got[1].len
    /\ slot[0][0].got[2].sent = 0

\* the window closes on the first request of a batch of two and the
\* collector has panicked: the second request is not sent
C30_WitnessWindow ==
    /\ coll = "panicked" /\ should_stop
    /\ slot[0][0].pc = "done"
    /\ slot[0][0].nclose = 1 /\ slot[0][0].ntag = 1 /\ slot[0][0].nsub = 1
    /\ slot[0][0].got[Len(slot[0][0].got)].len = 2
    /\ slot[0][0].got[Len(slot[0][0].got)].sent = 1

\* The window check at the end of send(), for a slot awaiting a response that
\* comes in as `outcome` after dur seconds with the window elapsed: the
\* current sample, holding what the request recorded, is submitted, the next
\* sample is empty and has the same tag, and the window restarts.
WindowClosesOn(w, k, outcome, dur) ==
    LET sl == slot[w][k]
        r == send_end(sl, outcome, dur, <<w, k>>)
    IN (should_submit(sl.window, sl.elapsed + dur) /\ mailbox_connected) =>
          /\ Len(r.out) = 1
          /\ r.out[1].tag = sl.sample.tag
          /\ r.out[1].total_requests = sl.sample.total_requests
          /\ r.out[1].total_duration = sl.elapsed + dur
          /\ r.sl.sample = new_sample(sl.sample.tag, sl.sample.worker_id)
          /\ r.sl.elapsed = 0
          /\ r.result = "continue"

\* C31 (SpecErrors): after each request, whether it ends as a success, a
\* validator rejection, a recorded InvalidBody or a recorded Timeout, the
\* slot submits the current sample if the window has elapsed, gives the next
\* sample the same tag and restarts the window.
C31_WindowCheckAfterEveryRequest ==
    \A w \in WorkerIds : \A k \in SlotIds :
        slot[w][k].pc = "req" =>
            \A dur \in Latencies :
                \A outcome \in {"ok", "rejected", "invalid", "timeout"} :
                    WindowClosesOn(w, k, outcome, dur)

\* What send() does: the window is checked after a response, accepted or
\* rejected by the validator; a recorded InvalidBody or Timeout returns
\* before the check, and the sample stays open however long the window has
\* been elapsed.
C31_WindowCheckAfterResponses ==
    \A w \in WorkerIds : \A k \in SlotIds :
        slot[w][k].pc = "req" =>
            \A dur \in Latencies :
                /\ \A outcome \in {"ok", "rejected"} : WindowClosesOn(w, k, outcome, dur)
                /\ \A outcome \in {"invalid", "timeout"} :
                      LET sl == slot[w][k]
                          r == send_end(sl, outcome, dur, <<w, k>>)
                      IN /\ r.out = <<>>
                         /\ r.sl.elapsed = sl.elapsed + dur
                         /\ r.sl.sample.tag = sl.sample.tag
                         /\ r.sl.sample.total_requests = sl.sample.total_requests

\* a slot going on with a sample whose window has elapsed, its last request
\* recorded as a Timeout
C31_Witness ==
    /\ slot[0][0].pc \in {"recv", "req"}
    /\ slot[0][0].nsub = 0
    /\ should_submit(slot[0][0].window, slot[0][0].elapsed)
    /\ Len(slot[0][0].sample.errors) >= 1
    /\ slot[0][0].sample.errors[Len(slot[0][0].sample.errors)] = "Timeout"
    /\ slot[0][0].sample.total_requests = Len(slot[0][0].sample.errors)

\* C32 (SpecTags): every sample, delivered or in progress, counts only
\* requests of batches that carry the sample's tag; a batch received with
\* another tag than the current sample's has that sample submitted, as it
\* is, before its first request is counted, in a new sample of the batch's
\* tag; a batch received with the current sample's tag causes no submission
\* and its first request is counted in the same sample.
C32_TagPurity ==
    /\ \A i \in 1..Len(Delivered) : Delivered[i].of_tags \subseteq {Delivered[i].tag}
    /\ \A w \in WorkerIds : \A k \in SlotIds :
        LET sl == slot[w][k]
        IN /\ sl.sample.of_tags \subseteq {sl.sample.tag}
           /\ (sl.pc = "recv" /\ queue[w] # <<>> /\ mailbox_connected) =>
                 \A wait \in Waits :
                     LET b == Head(queue[w])
                         r == receive_batch(sl, b, wait, <<w, k>>)
                     IN IF b.tag # sl.sample.tag
                        THEN /\ Len(r.out) = 1
                             /\ r.out[1].tag = sl.sample.tag
                             /\ r.out[1].total_requests = sl.sample.total_requests
                             /\ r.out[1].latency = sl.sample.latency
                             /\ r.sl.sample.tag = b.tag
                             /\ r.sl.sample.total_requests = 1
                             /\ r.sl.nsub = sl.nsub + 1
                        ELSE /\ r.out = <<>>
                             /\ r.sl.sample.tag = sl.sample.tag
                             /\ r.sl.sample.total_requests = sl.sample.total_requests + 1
                             /\ r.sl.nsub = sl.nsub

\* two batches of tag 1 share a sample, which is submitted when a batch of
\* tag 0 follows
C32_Witness ==
    /\ Len(slot[0][0].got) = 3
    /\ slot[0][0].got[1].tag = 1 /\ slot[0][0].got[1].len = 1
    /\ slot[0][0].got[2].tag = 1 /\ slot[0][0].got[2].len = 1
    /\ slot[0][0].got[3].tag = 0
    /\ slot[0][0].sample.of_tags = {0}
    /\ \E i \in 1..Len(Delivered) :
          /\ Delivered[i].tag = 1 /\ Delivered[i].of_tags = {1}
          /\ Delivered[i].total_requests = 2

\* C33 (SpecConnect): connect_timeout with retry maximum N calls connect()
\* at most N + 1 times; every attempt but the first follows a failed attempt
\* and a sleep of 500 ms, taken while retries are left; the call returns the
\* connection at the first attempt that succeeds, and with the budget used
\* up it returns the error of the last failed attempt.
C33_ConnectRetries ==
    /\ conn.attempts <= conn.retry_max + 1
    /\ conn.attempts_left >= 0
    /\ conn.pc = "sleep" =>
          /\ conn.last_error = conn.attempts
          /\ conn.attempts_left = conn.retry_max - conn.attempts
          /\ conn.sleeps = conn.attempts - 1
    /\ conn.pc = "attempt" =>
          /\ conn.sleeps = conn.attempts
          /\ conn.last_error = conn.attempts
          /\ conn.attempts_left = conn.retry_max - conn.attempts
    /\ (conn.pc = "returned" /\ conn.result.kind = "conn") =>
          /\ conn.last_error = conn.attempts - 1
          /\ conn.sleeps = conn.attempts - 1
    /\ (conn.pc = "returned" /\ conn.result.kind = "err" /\ ~conn.result.elapsed) =>
          /\ conn.attempts = conn.retry_max + 1
          /\ conn.attempts_left = 0
          /\ conn.result.error = conn.attempts
    /\ (conn.pc = "returned" /\ conn.result.kind = "err") =>
          conn.result.error \in {conn.attempts, conn.attempts - 1}

\* three attempts fail with a retry maximum of 2: the third error is returned
C33_Witness ==
    /\ conn.pc = "returned"
    /\ conn.retry_max = 2 /\ conn.attempts = 3 /\ conn.sleeps = 2
    /\ conn.result = [kind |-> "err", error |-> 3, elapsed |-> FALSE]

\* C34 as stated (SpecConnect): when the deadline elapses before an attempt
\* has succeeded, connect_timeout returns the timed-out result, with no
\* connection and no error.
C34_ElapsedReturnsNone ==
    (conn.pc = "returned" /\ conn.result.elapsed) => conn.result.kind = "none"

\* C34, what connect_timeout does (SpecConnect): when the deadline elapses
\* before an attempt has succeeded, it returns the timed-out result, with no
\* connection and no error, if no attempt has failed before; if one has, it
\* returns the error of the last attempt that failed.
C34_ElapsedReturnsNoneOrLastError ==
    (conn.pc = "returned" /\ conn.result.elapsed) =>
        /\ conn.now >= conn.deadline
        /\ conn.result.kind # "conn"
        /\ conn.attempts = 1 <=> conn.result.kind = "none"
        /\ conn.result.kind = "none" => conn.result.error = 0 /\ conn.last_error = 0
        /\ conn.attempts > 1 <=> conn.result.kind = "err"
        /\ conn.result.kind = "err" => conn.result.error = conn.attempts - 1

\* the deadline elapses in the second attempt, the first having failed
C34_Witness ==
    /\ conn.pc = "returned"
    /\ conn.retry_max = 3 /\ conn.attempts = 2
    /\ conn.result = [kind |-> "err", error |-> 1, elapsed |-> TRUE]

\* the deadline elapses in the first attempt
C34_WitnessNone ==
    /\ conn.pc = "returned" /\ conn.attempts = 1
    /\ conn.result = [kind |-> "none", error |-> 0, elapsed |-> TRUE]

\* C35 as stated (SpecRequest): with rate-limit retry enabled one
\* execute_req sends the request at most 12 times, however many 429
\* responses come; with it disabled the request is sent exactly once and a
\* 429 response is what execute_req returns, for the validator.  With the
\* mode enabled this is so when the back-off yields at most 11 durations.
C35_AtMostTwelveSends ==
    /\ conn.retry_429s => conn.sent <= 12
    /\ (~conn.retry_429s /\ conn.pc = "returned") =>
          conn.sent = 1 /\ conn.result \in {"200", "429", "500", "error"}
    /\ (~conn.retry_429s /\ conn.pc # "returned") => conn.sent = 0

\* C35, what execute_req itself fixes (SpecRequest): with rate-limit retry
\* enabled it sends the request once per back-off duration, each time
\* followed by a sleep when the response is a 429, and once more when the
\* durations have run out, the response to that request being returned
\* whatever its status: one request more than there are durations, at most.
\* With the mode disabled the request is sent exactly once and a 429
\* response is returned, for the validator.
C35_OneSendPerDuration ==
    /\ conn.retry_429s =>
          /\ conn.sent <= conn.yields + 1
          /\ conn.sleeps <= conn.yields
          /\ conn.pc \in {"send", "last"} => conn.sent = conn.sleeps
          /\ conn.pc \in {"sleep", "returned"} => conn.sent = conn.sleeps + 1
          /\ (conn.pc = "returned" /\ conn.result = "429") =>
                conn.sent = conn.yields + 1
    /\ (~conn.retry_429s /\ conn.pc = "returned") =>
          conn.sent = 1 /\ conn.result \in {"200", "429", "500", "error"}
    /\ (~conn.retry_429s /\ conn.pc # "returned") => conn.sent = 0 /\ conn.sleeps = 0

\* every duration slept through and one more request sent
C35_Witness ==
    /\ conn.retry_429s
    /\ conn.pc = "returned"
    /\ conn.yields = BACKOFF_RETRIES - 1
    /\ conn.sent = conn.yields + 1 /\ conn.sleeps = conn.yields
    /\ conn.result = "429"

\* the mode disabled: one request, its 429 response returned
C35_WitnessDisabled ==
    /\ ~conn.retry_429s
    /\ conn.pc = "returned" /\ conn.sent = 1 /\ conn.result = "429"

\* C36 (SpecUsage): a poll of the wrapped stream that reads n new bytes
\* raises the received counter by exactly n, a poll that reads nothing
\* leaves it as it is, whatever the read buffer held before the poll; the
\* counter never goes down.
C36_ReadsCounted ==
    conn.io.op = "read" =>
        /\ conn.received = conn.io.before + conn.io.n
        /\ conn.io.kind # "ready" => conn.received = conn.io.before
        /\ conn.received >= conn.io.before

\* What poll_read counts: the whole filled part of the buffer, the bytes it
\* held before the poll included, also when the poll is pending or fails.
C36_FilledCounted ==
    conn.io.op = "read" =>
        /\ conn.received = conn.io.before + conn.io.prior + conn.io.n
        /\ conn.received >= conn.io.before

\* a pending poll with two bytes in the buffer already: two bytes counted
C36_Witness ==
    /\ conn.io.op = "read" /\ conn.io.kind = "pending"
    /\ conn.io.prior = 2 /\ conn.io.n = 0
    /\ conn.received = conn.io.before + 2

\* C37 (SpecUsage): a poll_write in which the inner stream accepts n bytes
\* raises the written counter by exactly n; a write that is pending, fails
\* or is accepted in part counts no byte that was not written; the counter
\* never goes down.
C37_WritesCounted ==
    conn.io.op = "write" =>
        /\ conn.written = conn.io.before + conn.io.n
        /\ conn.io.kind # "ready" => conn.written = conn.io.before
        /\ conn.written >= conn.io.before

\* What poll_write counts: the length of the buffer it is offered, before
\* the inner stream is polled and whatever that poll returns.
C37_OfferedCounted ==
    conn.io.op = "write" =>
        /\ conn.written = conn.io.before + conn.io.len
        /\ conn.written >= conn.io.before + conn.io.n

\* a write of two bytes of which the inner stream accepts one: two counted
C37_Witness ==
    /\ conn.io.op = "write" /\ conn.io.kind = "ready"
    /\ conn.io.len = 2 /\ conn.io.n = 1
    /\ conn.written = conn.io.before + 2

\* a pending write of two bytes: two counted
C37_WitnessPending ==
    /\ conn.io.op = "write" /\ conn.io.kind = "pending"
    /\ conn.io.len = 2
    /\ conn.written = conn.io.before + 2

\* the rate the last call pushed
LastRate ==
    IF conn.last.op = "read"
    THEN conn.sample.read_transfer[Len(conn.sample.read_transfer)]
    ELSE conn.sample.write_transfer[Len(conn.sample.write_transfer)]

\* C38 (SpecRates): record_read_transfer and record_write_transfer given a
\* duration of zero record a rate of 0, whatever the start and end byte
\* counts (end >= start).
C38_ZeroDurationRateZero ==
    conn.last.op # "none" /\ conn.last.dur = 0 => LastRate = 0

\* What a zero duration records: 0 when no byte was transferred, the
\* largest rate there is when any was.
C38_ZeroDurationSaturates ==
    conn.last.op # "none" /\ conn.last.dur = 0 =>
        LastRate = IF conn.last.stop = conn.last.start THEN 0 ELSE RateMax

\* one byte read in no time: the largest rate recorded
C38_Witness ==
    /\ conn.last = [op |-> "read", start |-> 1, stop |-> 2, dur |-> 0]
    /\ LastRate = RateMax

\* one byte written in no time: the largest rate recorded
C38_WitnessWrite ==
    /\ conn.last = [op |-> "write", start |-> 0, stop |-> 1, dur |-> 0]
    /\ LastRate = RateMax

\* C39 (SpecKeys): for every batch a slot of worker w has received, with
\* first request id f, the validator is called for the n-th request (from
\* 0) with RequestKey(w, f + n): the keys of one batch are consecutive and
\* pairwise distinct, and the worker id of every key is below num_workers.
C39_RequestKeys ==
    \A w \in WorkerIds, k \in SlotIds :
        \A b \in 1..Len(slot[w][k].got) :
            LET g == slot[w][k].got[b]
            IN /\ Len(g.keys) <= g.len
               /\ \A i \in 1..Len(g.keys) :
                    /\ g.keys[i].n = i - 1
                    /\ g.keys[i].key = RequestKey(w, g.key.request_id + (i - 1))
                    /\ g.keys[i].key.worker_id < cfg.num_workers
               /\ \A i, j \in 1..Len(g.keys) :
                    /\ i # j => g.keys[i].key # g.keys[j].key
                    /\ j = i + 1 =>
                         g.keys[j].key.request_id = g.keys[i].key.request_id + 1

\* the slot of worker 1 has had both requests of a batch with first request
\* id 1 validated, under the keys (1, 1) and (1, 2)
C39_Witness ==
    /\ Len(slot[1][0].got) = 1
    /\ slot[1][0].got[1].len = 2
    /\ slot[1][0].got[1].key = RequestKey(1, 1)
    /\ slot[1][0].got[1].keys =
          <<[n |-> 0, key |-> RequestKey(1, 1)], [n |-> 1, key |-> RequestKey(1, 2)]>>

\* a worker of the run that was assigned no slot
ZeroSlots(w) == w \in Workers /\ wk[w].pc # "idle" /\ wk[w].concurrency = 0

\* C40 (FairSpec): a worker that is assigned no slot opens no connection,
\* executes no request, submits no sample and never waits for a slot task:
\* it goes from its start to its exit; and once the guards of the workers
\* that have slots are dropped, the future of run() completes.
C40_ZeroSlotWorkers ==
    /\ [](\A w \in WorkerIds : ZeroSlots(w) =>
            /\ wk[w].connected = 0
            /\ wk[w].pc # "join"
            /\ prod[w].pc \in {"none", "wait"}
            /\ \A k \in SlotIds :
                 /\ slot[w][k].pc = "none"
                 /\ slot[w][k].driver = "none"
                 /\ slot[w][k].nsub = 0
                 /\ slot[w][k].sample.total_requests = 0
            /\ \A i \in 1..Len(Delivered) : Delivered[i].worker_id # w)
    /\ \A w \in WorkerIds : (ZeroSlots(w) /\ wk[w].pc = "run") ~> (wk[w].pc = "gone")
    /\ (/\ waiter[1] = "pending"
        /\ \E w \in Workers : wk[w].concurrency = 0
        /\ \A w \in Workers : wk[w].concurrency > 0 => ~GuardHeld(w))
          ~> (waiter[1] = "done")

\* two workers for a concurrency of one: worker 1 has no slot and is gone,
\* worker 0 has delivered a sample with a successful request, run() is over
C40_Witness ==
    /\ cfg.num_workers = 2 /\ cfg.concurrency = 1
    /\ ZeroSlots(1) /\ wk[1].pc = "gone"
    /\ wk[0].concurrency = 1 /\ slot[0][0].nsub >= 1
    /\ waiter[1] = "done"
    /\ \E i \in 1..Len(Delivered) :
         Delivered[i].worker_id = 0 /\ Delivered[i].total_successful_requests = 1

\* the worker without a slot exits while the worker with one is still at work
C40_WitnessEarly ==
    /\ cfg.num_workers = 2 /\ cfg.concurrency = 1
    /\ ZeroSlots(1) /\ wk[1].pc = "gone"
    /\ slot[0][0].pc = "req"
    /\ waiter[1] = "pending"

====
